---- MODULE Spec2Model ----
(***************************************************************************)
(* Drone-routed messaging fabric: the drone packet state machine           *)
(* (Drone/src/drone/rust_do_it.rs, Drone-main/src/drone/mod.rs), the       *)
(* endpoint routing handler and packet loop (common/src) and the fragment  *)
(* assemblers (common-main/src/types.rs, common/src/assembler.rs).         *)
(***************************************************************************)
EXTENDS Integers, Sequences, FiniteSets, TLC

VARIABLES
    queue,          \* node id -> inbound packet queue (FIFO)
    cmdq,           \* drone id -> inbound command queue (FIFO)
    packet_send,    \* drone id -> ids of the neighbour map
    pdr,            \* drone id -> packet drop rate, in units of 1/Scale
    flood_session,  \* drone id -> set of <<flood_id, initiator_id>>
    status,         \* drone id -> "running" | "crashed" | "panicked"
    closed,         \* nodes whose inbound queue has lost its receiver
    last,           \* what the most recent handler invocation did
    injected,       \* packets the endpoints have put on the wire so far
    ncmd,           \* number of controller commands issued so far
    pending_sends,  \* drone id -> copies its running handler has still to write
    polled,         \* drones whose select found the command queue empty
    payload,        \* the message handed to the fragmenter
    wire,           \* its fragments not yet handed to types.rs FragmentAssembler
    asm,            \* FragmentAssembler of common-main/src/types.rs
    cwire,          \* fragments not yet handed to assembler.rs FragmentAssembler
    casm,           \* FragmentAssembler of common/src/assembler.rs
    peer_wire,      \* fragments of a second peer's message, same session id
    rh,             \* the endpoint's RoutingHandler
    ep_status,      \* "running" | "exited" | "panicked" | "diverged"
    ep_last,        \* what the endpoint's most recent operation did
    ep_ops,         \* number of commands and application calls so far
    ep_acked        \* <<session_id, fragment_index, from>> of the Acks handled

fabricVars == <<queue, cmdq, packet_send, pdr, flood_session, status, closed,
                last, injected, ncmd, pending_sends, polled>>

asmVars == <<payload, wire, asm, cwire, casm, peer_wire>>

epVars == <<rh, ep_status, ep_last, ep_ops, ep_acked>>

vars == <<fabricVars, asmVars, epVars>>

----------------------------------------------------------------------------
(* Bounds of the model *)

MaxInject == 1      \* packets the endpoints inject
MaxCmds == 1        \* controller commands issued
Scale == 2          \* resolution of pdr and of the uniform draw: k stands for k/Scale

----------------------------------------------------------------------------
(* Node ids of the simulated topology (general_tests.rs uses the same ids) *)

Clients == {1}
Me == CHOOSE c \in Clients : TRUE    \* the endpoint whose routing handler is modelled
Servers == {21}
Drones == {11, 12, 13}
Endpoints == Clients \cup Servers
Nodes == Endpoints \cup Drones

None == -1          \* Option::None of an Option<NodeId>

----------------------------------------------------------------------------
(* Sequences, indexed from 0 as Vec<NodeId> is *)

Get(s, i) == IF i >= 0 /\ i < Len(s) THEN s[i + 1] ELSE None

RECURSIVE Reverse(_)
Reverse(s) == IF s = <<>> THEN <<>> ELSE Append(Reverse(Tail(s)), Head(s))

\* hops[0..n), defined when n <= len
Prefix(s, n) == SubSeq(s, 1, n)

Last(s) == s[Len(s)]

Range(s) == { s[i] : i \in DOMAIN s }

RECURSIVE SeqOfSet(_)
SeqOfSet(S) ==
    IF S = {} THEN <<>>
    ELSE LET m == CHOOSE x \in S : \A y \in S : x <= y
         IN <<m>> \o SeqOfSet(S \ {m})

----------------------------------------------------------------------------
(* Packets.  One record shape for all five packet types; the fields a type *)
(* does not have keep their default.                                       *)

NoPkt ==
    [type |-> "None", hops |-> <<>>, hop_index |-> 0, session_id |-> 0,
     fragment_index |-> 0, total |-> 0, length |-> 0, data |-> 0,
     nack_type |-> "None", nack_node |-> None,
     flood_id |-> 0, initiator_id |-> None, path_trace |-> <<>>]

new_fragment(hops, idx, session, fi, total, length, data) ==
    [NoPkt EXCEPT !.type = "MsgFragment", !.hops = hops, !.hop_index = idx,
                  !.session_id = session, !.fragment_index = fi,
                  !.total = total, !.length = length, !.data = data]

new_ack(hops, idx, session, fi) ==
    [NoPkt EXCEPT !.type = "Ack", !.hops = hops, !.hop_index = idx,
                  !.session_id = session, !.fragment_index = fi]

new_nack(hops, idx, session, fi, ntype, nnode) ==
    [NoPkt EXCEPT !.type = "Nack", !.hops = hops, !.hop_index = idx,
                  !.session_id = session, !.fragment_index = fi,
                  !.nack_type = ntype, !.nack_node = nnode]

new_flood_request(session, flood_id, initiator, trace) ==
    [NoPkt EXCEPT !.type = "FloodRequest", !.session_id = session,
                  !.flood_id = flood_id, !.initiator_id = initiator,
                  !.path_trace = trace]

new_flood_response(hops, idx, session, flood_id, trace) ==
    [NoPkt EXCEPT !.type = "FloodResponse", !.hops = hops, !.hop_index = idx,
                  !.session_id = session, !.flood_id = flood_id,
                  !.path_trace = trace]

\* Packet::get_fragment_index: the index of a Fragment, Ack or Nack, else 0
get_fragment_index(p) ==
    IF p.type \in {"MsgFragment", "Ack", "Nack"} THEN p.fragment_index ELSE 0

\* SourceRoutingHeader::increase_hop_index, preceded by a faulty variant that
\* leaves hop_index as it is
increase_hop_index_stuck(p) == p

increase_hop_index(p) == [p EXCEPT !.hop_index = p.hop_index + 1]

\* SourceRoutingHeader::current_hop / next_hop
current_hop(p) == Get(p.hops, p.hop_index)
next_hop(p) == Get(p.hops, p.hop_index + 1)

----------------------------------------------------------------------------
(* The effect of a handler: packets written to queues, events sent to the  *)
(* controller, and whether the handler panicked (an unwrap on None).       *)

Eff(sends, events, panic) == [sends |-> sends, events |-> events, panic |-> panic]
NoEff == Eff(<<>>, <<>>, FALSE)
PanicEff == Eff(<<>>, <<>>, TRUE)

\* e1 then e2; nothing of e2 happens when e1 panicked
Then(e1, e2) ==
    IF e1.panic THEN e1
    ELSE Eff(e1.sends \o e2.sends, e1.events \o e2.events, e2.panic)

Event(kind, p) == [kind |-> kind, pkt |-> p]
Write(to, p) == [to |-> to, pkt |-> p]

\* A send on a crossbeam channel fails only when every receiver is gone
Open(n) == n \notin closed

----------------------------------------------------------------------------
(* Fragmenter and assembler of common-main/src/types.rs *)

FragSize == 128

Zeros(n) == [i \in 1 .. n |-> 0]

Fragment(index, total, length, data) ==
    [fragment_index |-> index, total_n_fragments |-> total, length |-> length,
     data |-> data]

\* MessageFragmenter::fragment_message: data.chunks(128), each padded with 0
fragment_message(data) ==
    LET total == (Len(data) + 127) \div FragSize
        chunk(i) == SubSeq(data, i * FragSize + 1,
                           IF (i + 1) * FragSize < Len(data) THEN (i + 1) * FragSize
                           ELSE Len(data))
    IN [i \in 1 .. total |->
            Fragment(i - 1, total, Len(chunk(i - 1)),
                     chunk(i - 1) \o Zeros(FragSize - Len(chunk(i - 1))))]

\* HashMap helpers: a map is a function whose domain is its key set
MapPut(m, k, v) == [x \in DOMAIN m \cup {k} |-> IF x = k THEN v ELSE m[x]]
MapDel(m, k) == [x \in DOMAIN m \ {k} |-> m[x]]
MapGetOr(m, k, dflt) == IF k \in DOMAIN m THEN m[k] ELSE dflt

NoneRet == [some |-> FALSE, data |-> <<>>]
SomeRet(data) == [some |-> TRUE, data |-> data]

AsmEmpty ==
    [fragments |-> <<>>, expected_fragments |-> <<>>, received_fragments |-> <<>>,
     ret |-> NoneRet, panicked |-> FALSE]

AsmPanic(a) == [a EXCEPT !.panicked = TRUE, !.ret = NoneRet]

\* buffer[start..start+len] = src[..len]
CopyInto(buffer, start, src, len) ==
    [i \in 1 .. Len(buffer) |->
        IF i > start /\ i <= start + len THEN src[i - start] ELSE buffer[i]]

\* the length the completed buffer is cut to; `expected` is the
\* expected_fragments map as it is when the length is computed
actual_length(expected, sid, length) ==
    LET total_frags == MapGetOr(expected, sid, 1)
    IN IF total_frags > 1 THEN (total_frags - 1) * FragSize + length ELSE length

\* FragmentAssembler::add_fragment(session_id, fragment_index, total, length, data)
add_fragment(a, sid, f) ==
    LET a1 == IF sid \in DOMAIN a.fragments THEN a
              ELSE [a EXCEPT
                      !.fragments = MapPut(@, sid, Zeros(f.total_n_fragments * FragSize)),
                      !.expected_fragments = MapPut(@, sid, f.total_n_fragments),
                      !.received_fragments =
                          MapPut(@, sid, [i \in 1 .. f.total_n_fragments |-> FALSE])]
        buffer == a1.fragments[sid]
        start == f.fragment_index * FragSize
        a2 == [a1 EXCEPT !.fragments[sid] = CopyInto(buffer, start, f.data, f.length)]
        received == [a2.received_fragments[sid] EXCEPT ![f.fragment_index + 1] = TRUE]
        a3 == [a2 EXCEPT !.received_fragments[sid] = received]
        \* remove(&session_id) on the three maps comes before the length
        a4 == [a3 EXCEPT !.fragments = MapDel(@, sid),
                         !.expected_fragments = MapDel(@, sid),
                         !.received_fragments = MapDel(@, sid)]
        cut == actual_length(a4.expected_fragments, sid, f.length)
    IN IF start + f.length > Len(buffer) \/ f.length > FragSize
       THEN AsmPanic(a1)                     \* slice index out of range
       ELSE IF f.fragment_index >= Len(a2.received_fragments[sid])
       THEN AsmPanic(a2)                     \* received[fragment_index]
       ELSE IF \A i \in DOMAIN received : received[i]
       THEN IF cut > Len(a3.fragments[sid])
            THEN AsmPanic(a4)                \* complete_data[..actual_length]
            ELSE [a4 EXCEPT !.ret = SomeRet(SubSeq(a3.fragments[sid], 1, cut))]
       ELSE [a3 EXCEPT !.ret = NoneRet]

----------------------------------------------------------------------------
(* Assembler of common/src/assembler.rs, keyed by <<session_id, sender>> *)

\* data = vec![]; for f in fragments { data.copy_from_slice(&f.data) }:
\* copy_from_slice panics unless both slices have the same length
RECURSIVE copy_all(_, _)
copy_all(data, frags) ==
    IF frags = <<>> THEN <<TRUE, data>>
    ELSE IF Len(data) # Len(Head(frags).data) THEN <<FALSE, data>>
    ELSE copy_all(Head(frags).data, Tail(frags))

\* fragments.sort_by(fragment_index); the sort is stable
RECURSIVE InsertByIndex(_, _)
InsertByIndex(sorted, f) ==
    IF sorted = <<>> THEN <<f>>
    ELSE IF Last(sorted).fragment_index <= f.fragment_index THEN Append(sorted, f)
    ELSE Append(InsertByIndex(SubSeq(sorted, 1, Len(sorted) - 1), f), Last(sorted))

RECURSIVE SortedByIndex(_)
SortedByIndex(frags) ==
    IF frags = <<>> THEN <<>>
    ELSE InsertByIndex(SortedByIndex(SubSeq(frags, 1, Len(frags) - 1)), Last(frags))

common_add_fragment(a, key, f) ==
    LET index == f.fragment_index
        a1 == IF key \in DOMAIN a.fragments THEN a
              ELSE [a EXCEPT
                      !.expected_fragments = MapPut(@, key, f.total_n_fragments),
                      !.received_fragments = MapPut(@, key, [i \in 1 .. index |-> FALSE]),
                      !.fragments = MapPut(@, key, <<f>>)]
        received == [a1.received_fragments[key] EXCEPT ![index + 1] = TRUE]
        a2 == [a1 EXCEPT !.received_fragments[key] = received]
        copied == copy_all(<<>>, SortedByIndex(a2.fragments[key]))
    IN IF index >= Len(a1.received_fragments[key])
       THEN AsmPanic(a1)                     \* received[index] = true
       ELSE IF Len(a2.fragments[key]) = a2.expected_fragments[key]
               /\ \A i \in DOMAIN received : received[i]
       THEN IF ~copied[1]
            THEN AsmPanic(a2)                \* copy_from_slice length mismatch
            ELSE [a2 EXCEPT !.fragments = MapDel(@, key),
                            !.expected_fragments = MapDel(@, key),
                            !.received_fragments = MapDel(@, key),
                            !.ret = SomeRet(copied[2])]
       ELSE [a2 EXCEPT !.ret = NoneRet]

----------------------------------------------------------------------------
(* Drone: rust_do_it.rs *)

\* a faulty variant of forward_packet: every failed write is a PacketDropped
forward_packet_lossy(packet, to) ==
    IF Open(to)
    THEN Eff(<<Write(to, packet)>>, <<Event("PacketSent", packet)>>, FALSE)
    ELSE Eff(<<>>, <<Event("PacketDropped", packet)>>, FALSE)

\* forward_packet: write to the neighbour's queue; a failed write is reported
\* to the controller (PacketDropped for a fragment, ControllerShortcut else)
forward_packet(packet, to) ==
    IF Open(to)
    THEN Eff(<<Write(to, packet)>>, <<Event("PacketSent", packet)>>, FALSE)
    ELSE IF packet.type = "MsgFragment"
         THEN Eff(<<>>, <<Event("PacketDropped", packet)>>, FALSE)
         ELSE Eff(<<>>, <<Event("ControllerShortcut", packet)>>, FALSE)

\* a faulty variant of nack_route: the slice stops one hop short of the drone
nack_route_short(d, ntype, hops, idx) ==
    IF idx - 1 > Len(hops) \/ idx < 1 THEN <<FALSE, <<>>>>
    ELSE <<TRUE, Reverse(Prefix(hops, idx - 1))>>

\* The route of a NACK, by family of NackType.  srh.sub_route(range).unwrap()
\* panics when the range leaves the hops; the result is <<ok, hops>>.
nack_route(d, ntype, hops, idx) ==
    CASE ntype \in {"ErrorInRouting", "Dropped"} ->
            IF idx > Len(hops) THEN <<FALSE, <<>>>>
            ELSE <<TRUE, Reverse(Prefix(hops, idx))>>
      [] ntype = "UnexpectedRecipient" ->
            IF idx >= Len(hops) THEN <<FALSE, <<>>>>
            ELSE <<TRUE, Reverse(Append(Prefix(hops, idx), d))>>
      [] ntype = "DestinationIsDrone" ->
            IF idx >= Len(hops) THEN <<FALSE, <<>>>>
            ELSE <<TRUE, Reverse(Prefix(hops, idx + 1))>>

generate_nack(d, ntype, nnode, fragment_index, hops, idx, session_id) ==
    IF Len(hops) = 1
    THEN \* malformed route: the NACK goes to the controller, header untouched
         Eff(<<>>,
             <<Event("ControllerShortcut",
                     new_nack(hops, idx, session_id, fragment_index, ntype, nnode))>>,
             FALSE)
    ELSE LET r == nack_route(d, ntype, hops, idx)
             nack == new_nack(r[2], 1, session_id, fragment_index, ntype, nnode)
             nh == current_hop(nack)
         IN IF ~r[1] THEN PanicEff               \* sub_route(..).unwrap()
            ELSE IF nh = None THEN PanicEff      \* current_hop().unwrap()
            ELSE IF nh \notin packet_send[d]
                 THEN Eff(<<>>, <<Event("ControllerShortcut", nack)>>, FALSE)
                 ELSE forward_packet(nack, nh)

\* is_dropped: a draw in [0,1) compared with pdr
is_dropped(d, draw) == draw <= pdr[d]

\* is_correct_recipient, with the NACK it generates on a mismatch
is_correct_recipient(d, p) == current_hop(p) = d

wrong_recipient(d, p) ==
    generate_nack(d, "UnexpectedRecipient", d, get_fragment_index(p),
                  p.hops, p.hop_index, p.session_id)

check_packet(d, p, draw) ==
    LET droppable == p.type = "MsgFragment"
        nh == next_hop(p)
        fwd == increase_hop_index(p)
    IN IF ~is_correct_recipient(d, p) THEN wrong_recipient(d, p)
       ELSE IF nh = None
            THEN generate_nack(d, "DestinationIsDrone", None, get_fragment_index(p),
                               p.hops, p.hop_index, p.session_id)
       ELSE IF nh \notin packet_send[d]
            THEN IF p.type \in {"Ack", "Nack", "FloodResponse"}
                 THEN Eff(<<>>, <<Event("ControllerShortcut", fwd)>>, FALSE)
                 ELSE generate_nack(d, "ErrorInRouting", nh, get_fragment_index(fwd),
                                    fwd.hops, fwd.hop_index, fwd.session_id)
       ELSE IF droppable /\ is_dropped(d, draw)
            THEN Then(Eff(<<>>, <<Event("PacketDropped", p)>>, FALSE),
                      generate_nack(d, "Dropped", None, get_fragment_index(fwd),
                                    fwd.hops, fwd.hop_index, fwd.session_id))
       ELSE forward_packet(fwd, nh)

RECURSIVE TraceIds(_)
TraceIds(trace) ==
    IF trace = <<>> THEN <<>> ELSE <<Head(trace)[1]>> \o TraceIds(Tail(trace))

\* a faulty variant of generate_flood_response: the initiator is never
\* appended to the route
generate_flood_response_bare(d, req) ==
    LET route == Reverse(TraceIds(req.path_trace))
        nh == Get(route, 1)
        resp == new_flood_response(route, 1, req.session_id, req.flood_id,
                                   req.path_trace)
    IN IF nh = None
       THEN generate_nack(d, "DestinationIsDrone", None, 0, route, 0, req.session_id)
       ELSE IF nh \notin packet_send[d]
            THEN Eff(<<>>, <<Event("ControllerShortcut", resp)>>, FALSE)
            ELSE forward_packet(resp, nh)

\* req is the request with (self, Drone) already pushed on its path_trace
generate_flood_response(d, req) ==
    LET rev == Reverse(TraceIds(req.path_trace))
        route == IF rev = <<>> \/ Last(rev) # req.initiator_id
                 THEN Append(rev, req.initiator_id) ELSE rev
        nh == Get(route, 1)
        resp == new_flood_response(route, 1, req.session_id, req.flood_id,
                                   req.path_trace)
    IN IF nh = None
       THEN generate_nack(d, "DestinationIsDrone", None, 0, route, 0, req.session_id)
       ELSE IF nh \notin packet_send[d]
            THEN Eff(<<>>, <<Event("ControllerShortcut", resp)>>, FALSE)
            ELSE forward_packet(resp, nh)

RECURSIVE Broadcast(_, _)
Broadcast(targets, p) ==
    IF targets = <<>> THEN NoEff
    ELSE Then(IF Open(Head(targets))
              THEN Eff(<<Write(Head(targets), p)>>, <<Event("PacketSent", p)>>, FALSE)
              ELSE Eff(<<>>, <<Event("ControllerShortcut", p)>>, FALSE),
              Broadcast(Tail(targets), p))

\* a faulty variant of flood_prev_hop: the initiator, whatever the trace
flood_prev_hop_initiator(p) == p.initiator_id

flood_prev_hop(p) ==
    IF p.path_trace = <<>> THEN p.initiator_id ELSE Last(p.path_trace)[1]

\* a faulty variant of flood_key: copies that took different routes differ
flood_key_by_trace(p) == <<p.flood_id, Len(p.path_trace)>>

flood_key(p) == <<p.flood_id, p.initiator_id>>

\* a faulty variant of flood_answers: the seen set is not consulted
flood_answers_forgetful(d, seen, p) == Cardinality(packet_send[d]) = 1

\* TRUE when the drone answers instead of re-broadcasting
flood_answers(d, seen, p) ==
    flood_key(p) \in seen \/ Cardinality(packet_send[d]) = 1

\* handle_flood_request; the copies are sent in ascending id order (the
\* HashMap order is unspecified and all copies are equal)
handle_flood_request(d, seen, p) ==
    LET req == [p EXCEPT !.path_trace = Append(p.path_trace, <<d, "Drone">>)]
        out == new_flood_request(req.session_id, req.flood_id, req.initiator_id,
                                 req.path_trace)
    IN IF flood_answers(d, seen, p)
       THEN generate_flood_response(d, req)
       ELSE Broadcast(SeqOfSet(packet_send[d] \ {flood_prev_hop(p)}), out)

\* handle_packet (normal mode)
handle_packet(d, seen, p, draw) ==
    IF p.type = "FloodRequest" THEN handle_flood_request(d, seen, p)
    ELSE check_packet(d, p, draw)

\* handle_packet_crash (while draining after Crash)
handle_packet_crash(d, p, draw) ==
    IF p.type \in {"MsgFragment", "FloodRequest"}
    THEN Then(generate_nack(d, "ErrorInRouting", d, get_fragment_index(p),
                            p.hops, p.hop_index, p.session_id),
              Eff(<<>>, <<Event("PacketDropped", p)>>, FALSE))
    ELSE check_packet(d, p, draw)

----------------------------------------------------------------------------
(* Endpoint network view: common/src/network.rs *)

Node(id, kind, adjacents) == [id |-> id, kind |-> kind, adjacents |-> adjacents]

Contains(s, x) == \E i \in DOMAIN s : s[i] = x

\* iter().position(..): the first index that holds x, 0 when there is none
FirstIndex(s, x) ==
    IF \E i \in DOMAIN s : s[i] = x
    THEN CHOOSE i \in DOMAIN s : s[i] = x /\ \A j \in 1 .. i - 1 : s[j] # x
    ELSE 0

RemoveAt(s, i) == SubSeq(s, 1, i - 1) \o SubSeq(s, i + 1, Len(s))

NodeIndex(nodes, id) == FirstIndex([i \in DOMAIN nodes |-> nodes[i].id], id)

\* Node::remove_adjacent: the first occurrence only
remove_adjacent(n, adj) ==
    IF FirstIndex(n.adjacents, adj) = 0 THEN n
    ELSE [n EXCEPT !.adjacents = RemoveAt(@, FirstIndex(n.adjacents, adj))]

\* Network::remove_node
remove_node(nodes, id) ==
    LET pruned == [i \in DOMAIN nodes |-> remove_adjacent(nodes[i], id)]
        k == NodeIndex(pruned, id)
    IN IF k = 0 THEN pruned ELSE RemoveAt(pruned, k)

\* Network::update_node: <<found, nodes>>; adjacents already listed are skipped
RECURSIVE AddMissing(_, _)
AddMissing(adjacents, new) ==
    IF new = <<>> THEN adjacents
    ELSE AddMissing(IF Contains(adjacents, Head(new)) THEN adjacents
                    ELSE Append(adjacents, Head(new)),
                    Tail(new))

update_node(nodes, id, adjacents) ==
    LET k == NodeIndex(nodes, id)
    IN IF k = 0 THEN <<FALSE, nodes>>
       ELSE <<TRUE, [nodes EXCEPT ![k].adjacents = AddMissing(@, adjacents)]>>

\* Network::add_node: for every adjacent already in the view (one of the two
\* being a drone) `node.add_adjacent(*adj)` is called on that adjacent node
RECURSIVE add_node_links(_, _, _)
add_node_links(nodes, new_node, adjs) ==
    IF adjs = <<>> THEN nodes
    ELSE LET adj == Head(adjs)
             k == NodeIndex(nodes, adj)
         IN add_node_links(
                IF k # 0 /\ (nodes[k].kind = "Drone" \/ new_node.kind = "Drone")
                THEN [nodes EXCEPT ![k].adjacents = Append(@, adj)]
                ELSE nodes,
                new_node, Tail(adjs))

\* a faulty variant of add_node: the new node is put in front of the others
add_node_front(nodes, new_node) ==
    <<new_node>> \o add_node_links(nodes, new_node, new_node.adjacents)

add_node(nodes, new_node) ==
    Append(add_node_links(nodes, new_node, new_node.adjacents), new_node)

\* Network::change_node_type
change_node_type(nodes, id, kind) ==
    LET k == NodeIndex(nodes, id)
    IN IF k = 0 THEN nodes ELSE [nodes EXCEPT ![k].kind = kind]

\* Network::find_path: BFS from nodes[0]; <<>> stands for None
\* a faulty variant of bfs_visit: a discovered node goes to the front of the
\* queue
RECURSIVE bfs_visit_front(_, _, _, _, _)
bfs_visit_front(adjs, current, visited, parent, q) ==
    IF adjs = <<>> THEN [visited |-> visited, parent |-> parent, q |-> q]
    ELSE IF Head(adjs) \in visited
         THEN bfs_visit_front(Tail(adjs), current, visited, parent, q)
         ELSE bfs_visit_front(Tail(adjs), current, visited \cup {Head(adjs)},
                              MapPut(parent, Head(adjs), current), <<Head(adjs)>> \o q)

RECURSIVE bfs_visit(_, _, _, _, _)
bfs_visit(adjs, current, visited, parent, q) ==
    IF adjs = <<>> THEN [visited |-> visited, parent |-> parent, q |-> q]
    ELSE IF Head(adjs) \in visited
         THEN bfs_visit(Tail(adjs), current, visited, parent, q)
         ELSE bfs_visit(Tail(adjs), current, visited \cup {Head(adjs)},
                        MapPut(parent, Head(adjs), current), Append(q, Head(adjs)))

RECURSIVE bfs_path(_, _)
bfs_path(parent, current) ==
    IF current \in DOMAIN parent
    THEN Append(bfs_path(parent, parent[current]), current)
    ELSE <<current>>

RECURSIVE bfs(_, _, _, _, _)
bfs(nodes, destination, visited, parent, q) ==
    IF q = <<>> THEN <<>>
    ELSE LET current == Head(q)
             k == NodeIndex(nodes, current)
             v == IF k = 0 THEN [visited |-> visited, parent |-> parent, q |-> Tail(q)]
                  ELSE bfs_visit(nodes[k].adjacents, current, visited, parent, Tail(q))
         IN IF current = destination THEN bfs_path(parent, destination)
            ELSE bfs(nodes, destination, v.visited, v.parent, v.q)

find_path(nodes, destination) ==
    bfs(nodes, destination, {nodes[1].id}, <<>>, <<nodes[1].id>>)

\* SourceRoutingHeader::without_loops: a route that visits a node twice is
\* cut from the first to the last visit
RECURSIVE without_loops(_)
without_loops(hops) ==
    IF hops = <<>> THEN <<>>
    ELSE LET lastAt == CHOOSE i \in DOMAIN hops :
                          hops[i] = Head(hops) /\ \A j \in i + 1 .. Len(hops) : hops[j] # Head(hops)
         IN <<Head(hops)>> \o without_loops(SubSeq(hops, lastAt + 1, Len(hops)))

----------------------------------------------------------------------------
(* Endpoint routing handler: common/src/routing_handler.rs.  An operation  *)
(* maps a context to a context: the handler's fields, the packets written  *)
(* and events emitted so far, and how the call has ended ("ok", an         *)
(* Err(..) name, "panic", or "diverge" for a loop that never exits).       *)

RhNew(id, kind, neighbors) ==
    [id |-> id, network_view |-> <<Node(id, kind, <<>>)>>, neighbors |-> neighbors,
     flood_seen |-> {}, session_counter |-> 0, flood_counter |-> 0,
     packets_received |-> <<>>, packets_to_send |-> <<>>]

Ctx(h) == [rh |-> h, sends |-> <<>>, events |-> <<>>, res |-> "ok"]

Fail(c, err) == [c EXCEPT !.res = err]

\* RoutingHandler::remove_neighbor
remove_neighbor(c, id) ==
    [c EXCEPT !.rh.neighbors = @ \ {id},
              !.rh.network_view = remove_node(@, id)]

\* RoutingHandler::add_neighbor
add_neighbor(c, id) ==
    [c EXCEPT !.rh.neighbors = @ \cup {id},
              !.rh.network_view = update_node(@, c.rh.id, <<id>>)[2]]

\* Buffer::insert
buffer_insert(c, packet, session_id, from) ==
    LET key == <<session_id, from>>
    IN [c EXCEPT !.rh.packets_received =
            MapPut(@, key, Append(MapGetOr(@, key, <<>>), <<FALSE, packet>>))]

\* Buffer::mark_as_received: f[index] panics when index is out of bounds
mark_as_received(c, session_id, fragment_index, from) ==
    LET key == <<session_id, from>>
        f == c.rh.packets_received[key]
        g == [f EXCEPT ![fragment_index + 1] = <<TRUE, f[fragment_index + 1][2]>>]
    IN IF key \notin DOMAIN c.rh.packets_received THEN c
       ELSE IF fragment_index >= Len(f) THEN Fail(c, "panic")
       ELSE IF \A i \in DOMAIN g : g[i][1]
            THEN [c EXCEPT !.rh.packets_received = MapDel(@, key)]
            ELSE [c EXCEPT !.rh.packets_received[key] = g]

\* Buffer::get_fragment_by_id: NoPkt stands for None
get_fragment_by_id(c, session_id, fragment_index, from) ==
    LET key == <<session_id, from>>
        session == MapGetOr(c.rh.packets_received, key, <<>>)
    IN IF fragment_index < Len(session) /\ ~session[fragment_index + 1][1]
       THEN session[fragment_index + 1][2]
       ELSE NoPkt

\* RoutingHandler::start_flood: the request goes to every neighbour; a
\* neighbour whose queue is closed is removed
RECURSIVE flood_neighbors(_, _, _)
flood_neighbors(c, targets, packet) ==
    IF targets = <<>> THEN c
    ELSE flood_neighbors(
            IF Open(Head(targets))
            THEN [c EXCEPT !.sends = Append(@, Write(Head(targets), packet))]
            ELSE remove_neighbor(c, Head(targets)),
            Tail(targets), packet)

start_flood(c) ==
    LET c1 == [c EXCEPT !.rh.session_counter = @ + 1, !.rh.flood_counter = @ + 1]
        packet == new_flood_request(c1.rh.session_counter, c1.rh.flood_counter,
                                    c1.rh.id, <<>>)
        c2 == [c1 EXCEPT !.events = Append(@, Event("FloodStarted", packet))]
    IN flood_neighbors(c2, SeqOfSet(c2.rh.neighbors), packet)

\* RoutingHandler::update_network_view
RECURSIVE view_walk(_, _, _)
view_walk(nodes, trace, i) ==
    IF i > Len(trace) THEN nodes
    ELSE LET neighbors == (IF i > 1 THEN <<trace[i - 1][1]>> ELSE <<>>)
                          \o (IF i < Len(trace) THEN <<trace[i + 1][1]>> ELSE <<>>)
             upd == update_node(nodes, trace[i][1], neighbors)
         IN view_walk(IF upd[1] THEN upd[2]
                      ELSE add_node(nodes, Node(trace[i][1], trace[i][2], neighbors)),
                      trace, i + 1)

update_network_view(c, trace) ==
    [c EXCEPT !.rh.network_view = view_walk(@, trace, 1)]

\* RoutingHandler::send_packet_to_first_hop: the packet is written to
\* hops[1], PacketSent is emitted and the packet is put in the buffer under
\* (session_id, self.id)
send_packet_to_first_hop(c, packet) ==
    IF Len(packet.hops) > 1
    THEN LET first_hop == Get(packet.hops, 1)
         IN IF first_hop \notin c.rh.neighbors THEN Fail(c, "NodeIsNotANeighbor")
            ELSE IF ~Open(first_hop) THEN Fail(c, "SendError")
            ELSE buffer_insert(
                    [c EXCEPT !.sends = Append(@, Write(first_hop, packet)),
                              !.events = Append(@, Event("PacketSent", packet))],
                    packet, packet.session_id, c.rh.id)
    ELSE c

\* RoutingHandler::try_find_path: <<ok, hops, hop_index>>
try_find_path(c, destination) ==
    IF destination = c.rh.id THEN <<TRUE, <<>>, 0>>
    ELSE LET path == find_path(c.rh.network_view, destination)
         IN IF path # <<>> THEN <<TRUE, without_loops(path), 1>>
            ELSE <<FALSE, <<>>, 0>>

\* RoutingHandler::try_send.  After PathNotFound the loop starts a flood,
\* parks the packet and iterates with the same header: unless the flood
\* emptied the neighbour map, every further iteration does the same
RECURSIVE try_send(_, _)
try_send(c, packet) ==
    IF packet.hops = <<>> THEN Fail(c, "NoDestination")
    ELSE IF c.rh.neighbors = {} THEN Fail(c, "NoNeighborAssigned")
    ELSE LET destination == Last(packet.hops)
             sent == send_packet_to_first_hop(c, packet)
             c1 == remove_neighbor(c, Get(packet.hops, 1))
             path == try_find_path(c1, destination)
             c2 == start_flood(c1)
             c3 == [c2 EXCEPT !.rh.packets_to_send = Append(@, packet)]
         IN IF sent.res = "ok" THEN sent
            ELSE IF path[1]
                 THEN IF path[2] = <<>>
                      THEN IF c1.rh.neighbors = {} THEN Fail(c1, "NoNeighborAssigned")
                           ELSE c1          \* empty route: nothing is sent
                      ELSE try_send(c1, [packet EXCEPT !.hops = path[2],
                                                       !.hop_index = path[3]])
                 ELSE IF c3.rh.neighbors = {} THEN Fail(c3, "NoNeighborAssigned")
                      ELSE Fail(c3, "diverge")

\* RoutingHandler::retry_send
retry_send(c, session_id, fragment_index, from) ==
    LET packet == get_fragment_by_id(c, session_id, fragment_index, from)
    IN IF packet # NoPkt THEN try_send(c, packet) ELSE c

\* RoutingHandler::handle_ack
handle_ack(c, ack, session_id, from) ==
    mark_as_received(c, session_id, ack.fragment_index, from)

\* RoutingHandler::handle_nack
handle_nack(c, nack, session_id, source_id) ==
    LET c1 == CASE nack.nack_type = "ErrorInRouting" ->
                        start_flood(remove_neighbor(c, nack.nack_node))
                [] nack.nack_type = "Dropped" -> c
                [] nack.nack_type = "DestinationIsDrone" ->
                        [c EXCEPT !.rh.network_view =
                                change_node_type(@, source_id, "Drone")]
                [] OTHER -> Fail(c, "panic")          \* todo!()
    IN IF c1.res # "ok" THEN c1             \* start_flood()?
       ELSE retry_send(c1, session_id, nack.fragment_index, source_id)

\* RoutingHandler::send_ack
send_ack(c, hops, hop_index, session_id, fragment_index) ==
    try_send(c, new_ack(hops, hop_index, session_id, fragment_index))

\* RoutingHandler::handle_flood_response: packets parked in packets_to_send
\* are drained and tried again
RECURSIVE try_send_all(_, _)
try_send_all(c, packets) ==
    IF packets = <<>> \/ c.res # "ok" THEN c
    ELSE try_send_all(try_send(c, Head(packets)), Tail(packets))

handle_flood_response(c, resp) ==
    IF resp.flood_id = c.rh.flood_counter
    THEN LET c1 == update_network_view(c, resp.path_trace)
         IN try_send_all([c1 EXCEPT !.rh.packets_to_send = <<>>], c1.rh.packets_to_send)
    ELSE c

\* RoutingHandler::handle_flood_request
RECURSIVE forward_flood(_, _, _)
forward_flood(c, targets, packet) ==
    IF targets = <<>> THEN c
    ELSE IF ~Open(Head(targets)) THEN Fail(c, "SendError")
    ELSE forward_flood([c EXCEPT !.sends = Append(@, Write(Head(targets), packet))],
                       Tail(targets), packet)

ep_own_kind(c) == "Drone"     \* path_trace.push((self.id, NodeType::Drone))

ep_handle_flood_request(c, req) ==
    LET prev_hop == flood_prev_hop(req)
        trace == Append(req.path_trace, <<c.rh.id, ep_own_kind(c)>>)
        c1 == update_network_view(c, trace)
        seen == flood_key(req) \in c1.rh.flood_seen
        c2 == [c1 EXCEPT !.rh.flood_seen = @ \cup {flood_key(req)}]
        path == find_path(c2.rh.network_view, req.initiator_id)
        rev == Reverse(TraceIds(trace))
        route == IF path # <<>> THEN path
                 ELSE IF Last(rev) # req.initiator_id THEN Append(rev, req.initiator_id)
                 ELSE rev
    IN IF seen \/ Cardinality(c2.rh.neighbors) = 1
       THEN try_send(c2, new_flood_response(route, 1, req.session_id, req.flood_id, trace))
       ELSE forward_flood(c2, SeqOfSet(c2.rh.neighbors \ {prev_hop}),
                          new_flood_request(req.session_id, req.flood_id,
                                            req.initiator_id, trace))

\* message.chunks(128), each copied into a zeroed [u8; 128]
chunks(message) ==
    [i \in 1 .. (Len(message) + FragSize - 1) \div FragSize |->
        LET chunk == SubSeq(message, (i - 1) * FragSize + 1,
                            IF i * FragSize < Len(message) THEN i * FragSize
                            ELSE Len(message))
        IN chunk \o Zeros(FragSize - Len(chunk))]

\* Fragment::new(index, total, data) sets length = 128
RECURSIVE send_fragments(_, _, _, _, _, _)
send_fragments(c, arrs, i, hops, hop_index, session_id) ==
    IF i > Len(arrs) \/ c.res # "ok" THEN c
    ELSE send_fragments(
            try_send(c, new_fragment(hops, hop_index, session_id, i - 1, Len(arrs),
                                     FragSize, arrs[i])),
            arrs, i + 1, hops, hop_index, session_id)

\* RoutingHandler::send_message; session_id = None is the value 0 here
send_message(c, message, destination, session_id) ==
    LET c1 == IF session_id = 0 THEN [c EXCEPT !.rh.session_counter = @ + 1] ELSE c
        shr == try_find_path(c1, destination)
        sid == IF session_id = 0 THEN c1.rh.session_counter ELSE session_id
    IN IF ~shr[1] THEN Fail(c1, "PathNotFound")
       ELSE send_fragments(c1, chunks(message), 1, shr[2], shr[3], sid)

----------------------------------------------------------------------------
(* Endpoint packet loop: common/src/packet_processor.rs *)

\* Processor::handle_packet.  a is the endpoint's FragmentAssembler; the
\* result is the context, the assembler and the message given to handle_msg
Handled(c, a, msg) == [c |-> c, a |-> a, msg |-> msg]

\* the Fragment arm after send_ack(..)?: add_fragment, then handle_msg
add_fragment_after_ack(c1, a, a1, from) ==
    IF c1.res # "ok" THEN Handled(c1, a, NoneRet)
    ELSE IF from = None \/ a1.panicked THEN Handled(Fail(c1, "panic"), a1, NoneRet)
    ELSE Handled(c1, a1, a1.ret)

\* `let _ =`: an Err of handle_flood_response is dropped
discard_err(c1) ==
    IF c1.res \in {"panic", "diverge"} THEN c1 ELSE [c1 EXCEPT !.res = "ok"]

\* hops[0] panics on an empty route
from_first_hop(c, a, pkt, handled) ==
    IF pkt.hops = <<>> THEN Handled(Fail(c, "panic"), a, NoneRet)
    ELSE Handled(handled, a, NoneRet)

ep_handle_packet(c, a, pkt) ==
    CASE pkt.type = "MsgFragment" ->
            add_fragment_after_ack(
                send_ack(c, Reverse(pkt.hops), pkt.hop_index, pkt.session_id,
                         pkt.fragment_index),
                a,
                common_add_fragment(a, <<pkt.session_id, Get(pkt.hops, 0)>>,
                    Fragment(pkt.fragment_index, pkt.total, pkt.length, pkt.data)),
                Get(pkt.hops, 0))
      [] pkt.type = "Ack" ->
            from_first_hop(c, a, pkt,
                           handle_ack(c, pkt, pkt.session_id, Get(pkt.hops, 0)))
      [] pkt.type = "Nack" ->
            from_first_hop(c, a, pkt,
                           handle_nack(c, pkt, pkt.session_id, Get(pkt.hops, 0)))
      [] pkt.type = "FloodRequest" ->
            Handled(ep_handle_flood_request(c, pkt), a, NoneRet)
      [] pkt.type = "FloodResponse" ->
            Handled(discard_err(handle_flood_response(c, pkt)), a, NoneRet)

----------------------------------------------------------------------------
(* Drone event loop: mod.rs run() and handle_command *)

RECURSIVE ApplySends(_, _)
ApplySends(q, sends) ==
    IF sends = <<>> THEN q
    ELSE ApplySends([q EXCEPT ![Head(sends).to] = Append(@, Head(sends).pkt)],
                    Tail(sends))

Step(d, mode, p, eff) == [node |-> d, mode |-> mode, pkt |-> p, eff |-> eff]

RECURSIVE SelectSeq2(_, _)
SelectSeq2(sends, d) ==
    IF sends = <<>> THEN <<>>
    ELSE IF Head(sends).to = d THEN <<Head(sends).pkt>> \o SelectSeq2(Tail(sends), d)
         ELSE SelectSeq2(Tail(sends), d)

\* DroneCommand::Crash: `while let Ok(packet) = try_recv()` handles every
\* queued packet in crash mode (packets the drone writes to itself included)
\* q is the drone's own queue; the result carries what is left of it
RECURSIVE Drain(_, _, _)
Drain(d, q, acc) ==
    IF q = <<>> THEN [steps |-> acc.steps, sends |-> acc.sends, panic |-> FALSE, rest |-> <<>>]
    ELSE LET eff == handle_packet_crash(d, Head(q), 0)
             st == Append(acc.steps, Step(d, "crash", Head(q), eff))
         IN IF eff.panic
            THEN [steps |-> st, sends |-> acc.sends, panic |-> TRUE, rest |-> Tail(q)]
            ELSE Drain(d, Tail(q) \o SelectSeq2(eff.sends, d),
                       [steps |-> st, sends |-> acc.sends \o eff.sends])

PdrCmdValues == (0 .. Scale + 1) \cup {-1}

Commands(d) ==
    [kind : {"AddSender", "RemoveSender"}, node : Nodes \ {d}, val : {0}]
    \cup [kind : {"SetPacketDropRate"}, node : {None}, val : PdrCmdValues]
    \cup [kind : {"Crash"}, node : {None}, val : {0}]

\* what recv yields on a command channel all of whose senders are dropped,
\* once the commands sent before are taken: Err(RecvError), again and again
Disconnected == [kind |-> "Disconnected", node |-> None, val |-> 0]

\* The controller puts a command on a drone's command queue
SendCommand(d, c) ==
    /\ ncmd < MaxCmds
    /\ Disconnected \notin Range(cmdq[d])
    /\ ncmd' = ncmd + 1
    /\ cmdq' = [cmdq EXCEPT ![d] = Append(@, c)]
    /\ UNCHANGED <<polled, pending_sends, queue, packet_send, pdr, flood_session, status, closed, last, injected, asmVars, epVars>>

\* The controller drops the sender of a drone's command channel
DropController(d) ==
    /\ ncmd < MaxCmds
    /\ Disconnected \notin Range(cmdq[d])
    /\ ncmd' = ncmd + 1
    /\ cmdq' = [cmdq EXCEPT ![d] = Append(@, Disconnected)]
    /\ UNCHANGED <<polled, pending_sends, queue, packet_send, pdr, flood_session, status, closed, last, injected, asmVars, epVars>>

\* run(): the command arm of select_biased, with handle_command.  The select
\* tries the command receiver first and the packet receiver after it, one
\* try at a time: d is in polled when the command queue was empty as the
\* drone came back to the select, so that its try of the command receiver can
\* have failed before a command that is waiting now was placed.  On a
\* disconnected channel the arm is taken with Err: `if let Ok(command)` does
\* not match, nothing is handled and the loop goes round, the channel still
\* disconnected
HandleCommand(d) ==
    /\ status[d] = "running"
    /\ cmdq[d] # <<>>
    /\ polled' = IF Tail(cmdq[d]) = <<>> /\ Head(cmdq[d]) # Disconnected
               THEN polled \cup {d} ELSE polled \ {d}
    /\ LET c == Head(cmdq[d])
           dr == Drain(d, queue[d], [steps |-> <<>>, sends |-> <<>>])
           others == SelectSeq(dr.sends, LAMBDA w : w.to # d)
       IN /\ cmdq' = IF c = Disconnected THEN cmdq ELSE [cmdq EXCEPT ![d] = Tail(@)]
          /\ packet_send' =
                CASE c.kind = "AddSender" -> [packet_send EXCEPT ![d] = @ \cup {c.node}]
                  [] c.kind = "RemoveSender" -> [packet_send EXCEPT ![d] = @ \ {c.node}]
                  [] OTHER -> packet_send
          /\ pdr' = IF c.kind = "SetPacketDropRate" /\ c.val >= 0 /\ c.val <= Scale
                    THEN [pdr EXCEPT ![d] = c.val] ELSE pdr
          /\ IF c.kind = "Crash"
             THEN /\ queue' = ApplySends([queue EXCEPT ![d] = dr.rest], others)
                  /\ status' = [status EXCEPT ![d] = IF dr.panic THEN "panicked" ELSE "crashed"]
                  /\ last' = dr.steps
             ELSE /\ UNCHANGED <<queue, status>>
                  /\ last' = <<>>
    /\ UNCHANGED <<pending_sends, flood_session, closed, injected, ncmd, asmVars, epVars>>

\* run(): the packet arm of select_biased, taken when the try of the command
\* receiver found nothing
HandlePacket(d, draw) ==
    /\ status[d] = "running"
    /\ d \in polled
    /\ polled' = IF cmdq[d] = <<>> THEN polled ELSE polled \ {d}
    /\ queue[d] # <<>>
    /\ LET p == Head(queue[d])
           eff == handle_packet(d, flood_session[d], p, draw)
       IN /\ queue' = ApplySends([queue EXCEPT ![d] = Tail(@)], eff.sends)
          /\ status' = IF eff.panic THEN [status EXCEPT ![d] = "panicked"] ELSE status
          /\ flood_session' = IF p.type = "FloodRequest"
                              THEN [flood_session EXCEPT ![d] = @ \cup {flood_key(p)}]
                              ELSE flood_session
          /\ last' = <<Step(d, "normal", p, eff)>>
    /\ UNCHANGED <<pending_sends, cmdq, packet_send, pdr, closed, injected, ncmd, asmVars, epVars>>

\* The receiver of a terminated drone is dropped once nothing else holds it
DropReceiver(d) ==
    /\ status[d] # "running"
    /\ d \notin closed
    /\ closed' = closed \cup {d}
    /\ UNCHANGED <<polled, pending_sends, queue, cmdq, packet_send, pdr, flood_session, status, last, injected, ncmd, asmVars, epVars>>

----------------------------------------------------------------------------
(* Packets the endpoints put on the wire *)

SessionIds == {5}
FragIdx == {1}

Routes ==
    { <<1, 11, 12, 21>>, <<21, 12, 11, 1>>, <<1, 11, 12, 13>>,
      <<1, 11, 13>>, <<1, 12, 11>>, <<11, 12>>, <<11>>, <<>> }

Headers == { h \in [hops : Routes, idx : 0 .. 4] : h.idx <= Len(h.hops) }

RoutedPackets ==
    UNION { { new_fragment(h.hops, h.idx, s, f, 1, 128, 1),
              new_ack(h.hops, h.idx, s, f),
              new_nack(h.hops, h.idx, s, f, "Dropped", None),
              new_flood_response(h.hops, h.idx, s, 1, <<<<1, "Client">>, <<11, "Drone">>>>) }
            : <<h, s, f>> \in Headers \X SessionIds \X FragIdx }

FloodPackets ==
    { new_flood_request(s, 1, 1, t) :
        <<s, t>> \in SessionIds \X { <<>>, <<<<1, "Client">>>> } }

\* An endpoint writes a packet to the queue of a drone
Inject(d, p) ==
    /\ Len(injected) < MaxInject
    /\ Open(d)
    /\ queue' = [queue EXCEPT ![d] = Append(@, p)]
    /\ injected' = Append(injected, Write(d, p))
    /\ UNCHANGED <<polled, pending_sends, cmdq, packet_send, pdr, flood_session, status, closed, last, ncmd, asmVars, epVars>>

----------------------------------------------------------------------------

InitTopology == (11 :> {1, 12}) @@ (12 :> {11, 13, 21}) @@ (13 :> {12})

FabricInit ==
    /\ queue = [n \in Nodes |-> <<>>]
    /\ cmdq = [d \in Drones |-> <<>>]
    /\ packet_send = InitTopology
    /\ flood_session = [d \in Drones |-> {}]
    /\ status = [d \in Drones |-> "running"]
    /\ closed = {}
    /\ last = <<>>
    /\ injected = <<>>
    /\ ncmd = 0
    /\ pending_sends = [d \in Drones |-> {}]
    /\ polled = Drones

AsmIdle ==
    /\ payload = <<>>
    /\ wire = {}
    /\ asm = AsmEmpty
    /\ cwire = {}
    /\ casm = AsmEmpty
    /\ peer_wire = {}

EpLast(op, pkt, c, msg) ==
    [op |-> op, pkt |-> pkt, sends |-> c.sends, events |-> c.events, res |-> c.res,
     msg |-> msg]

EpIdle ==
    /\ rh = RhNew(Me, "Client", {})
    /\ ep_status = "running"
    /\ ep_last = EpLast("none", NoPkt, Ctx(rh), NoneRet)
    /\ ep_ops = 0
    /\ ep_acked = {}

Init ==
    /\ FabricInit
    /\ pdr \in [Drones -> {0, Scale}]
    /\ AsmIdle
    /\ EpIdle

Next ==
    \/ \E d \in Drones : \E c \in Commands(d) : SendCommand(d, c)
    \/ \E d \in Drones : DropController(d)
    \/ \E d \in Drones : HandleCommand(d)
    \/ \E d \in Drones : \E draw \in 0 .. Scale - 1 : HandlePacket(d, draw)
    \/ \E d \in Drones : DropReceiver(d)
    \/ \E d \in {11, 12} : \E p \in RoutedPackets \cup FloodPackets : Inject(d, p)

Spec == Init /\ [][Next]_vars

----------------------------------------------------------------------------
(* Observations on the last handler invocation *)

AllRunning == \A d \in Drones : status[d] = "running"

Quiescent == \A d \in Drones : queue[d] = <<>> /\ cmdq[d] = <<>>

NormalSteps == { st \in Range(last) : st.mode = "normal" /\ st.pkt.type # "FloodRequest" }

\* NACKs the step created (a NACK it merely forwarded is the received packet
\* with hop_index + 1)
GeneratedNacks(st) ==
    { e.pkt : e \in { x \in Range(st.eff.events) :
                        /\ x.kind \in {"PacketSent", "ControllerShortcut"}
                        /\ x.pkt.type = "Nack"
                        /\ x.pkt # increase_hop_index(st.pkt) } }

\* position i >= 1 of the received header names the drone
AtPosition(st) == st.pkt.hop_index >= 1 /\ current_hop(st.pkt) = st.node

\* every hop from position i back to the source is a running drone that has
\* the hop before it as neighbour
LinkedBack(hops, i) ==
    \A j \in 1 .. i :
        /\ Get(hops, j) \in Drones
        /\ status[Get(hops, j)] = "running"
        /\ Get(hops, j - 1) \in packet_send[Get(hops, j)]

Delivered(n, p) == \E i \in DOMAIN queue[n] : queue[n][i] = p

----------------------------------------------------------------------------
(* C2: header sanity.  Every packet other than a FloodRequest that a drone *)
(* writes to a neighbour's queue (forwarded, generated NACK, generated     *)
(* FloodResponse; normal and crash mode) has hops[hop_index] = the id of   *)
(* the neighbour it is written to.                                         *)
C2_HeaderSanity ==
    \A st \in Range(last) : \A w \in Range(st.eff.sends) :
        w.pkt.type # "FloodRequest" => current_hop(w.pkt) = w.to

\* a drone wrote an UnexpectedRecipient NACK it generated to the client
C2_Witness ==
    \E st \in Range(last) : \E w \in Range(st.eff.sends) :
        /\ w.pkt.type = "Nack"
        /\ w.pkt \in GeneratedNacks(st)
        /\ w.pkt.nack_type = "UnexpectedRecipient"
        /\ w.to = 1

----------------------------------------------------------------------------
(* C8: a Dropped, ErrorInRouting or DestinationIsDrone NACK generated in   *)
(* check & forward by the drone at position i >= 1 of the received header  *)
(* carries the fragment_index and session_id of the offending packet,      *)
(* hops = reverse(hops[0..=i]) and hop_index = 1; and when every drone on  *)
(* the way back runs and has the previous hop as neighbour, it is at the   *)
(* source hops[0] with hop_index = i once the network is quiescent.        *)
C8_Emitted ==
    \A st \in NormalSteps : \A n \in GeneratedNacks(st) :
        (AtPosition(st) /\ n.nack_type \in {"Dropped", "ErrorInRouting", "DestinationIsDrone"})
        => /\ n.fragment_index = get_fragment_index(st.pkt)
           /\ n.session_id = st.pkt.session_id
           /\ n.hops = Reverse(Prefix(st.pkt.hops, st.pkt.hop_index + 1))
           /\ n.hop_index = 1

\* the fragment an endpoint sent (hop_index = 1, written to hops[1]) is, at
\* quiescence, either at its destination or answered by a NACK lying in the
\* source's queue with hops = reverse(hops[0..=i]) and hop_index = i
C8_Arrived ==
    \A w \in Range(injected) :
        LET p == w.pkt
            h == p.hops
        IN (/\ Quiescent /\ AllRunning /\ ncmd = 0 /\ Len(injected) = 1
            /\ p.type = "MsgFragment" /\ p.hop_index = 1 /\ Len(h) >= 2
            /\ w.to = Get(h, 1) /\ Get(h, 0) \in Endpoints
            /\ LinkedBack(h, 1)
            /\ ~ \E i \in DOMAIN h : Delivered(Get(h, Len(h) - 1), [p EXCEPT !.hop_index = i]))
           => \E i \in 1 .. Len(h) - 1 : \E nt \in {"Dropped", "ErrorInRouting", "DestinationIsDrone"} :
                \E nn \in Nodes \cup {None} :
                  /\ LinkedBack(h, i)
                  /\ Delivered(Get(h, 0),
                        new_nack(Reverse(Prefix(h, i + 1)), i, p.session_id,
                                 p.fragment_index, nt, nn))

C8_NackBackward == C8_Emitted /\ C8_Arrived

\* scenario "chain drop": the NACK generated at 12 lies in the client's queue
C8_Witness ==
    Delivered(1, new_nack(<<12, 11, 1>>, 2, 5, 1, "Dropped", None))

----------------------------------------------------------------------------
(* C1: for a route h = [s, d1, .., dk, t] whose drones run with pdr = 0    *)
(* and have both route neighbours in their map, a Fragment (likewise an    *)
(* Ack) written to d1 with hop_index = 1 is delivered to t unchanged but   *)
(* for hop_index = k + 1.  Stated on the quiescent network.                *)
RouteDrones(h) == { Get(h, j) : j \in 1 .. Len(h) - 2 }

LinkedRoute(h) ==
    \A j \in 1 .. Len(h) - 2 :
        /\ Get(h, j) \in Drones
        /\ pdr[Get(h, j)] = 0
        /\ {Get(h, j - 1), Get(h, j + 1)} \subseteq packet_send[Get(h, j)]

C1_Delivery ==
    \A w \in Range(injected) :
        LET p == w.pkt
            h == p.hops
        IN (/\ Quiescent /\ AllRunning /\ ncmd = 0
            /\ p.type \in {"MsgFragment", "Ack"} /\ p.hop_index = 1 /\ Len(h) >= 3
            /\ w.to = Get(h, 1)
            /\ Get(h, 0) \in Endpoints /\ Get(h, Len(h) - 1) \in Endpoints
            /\ LinkedRoute(h))
           => Delivered(Get(h, Len(h) - 1), [p EXCEPT !.hop_index = Len(h) - 1])

----------------------------------------------------------------------------
(* Outcome of check & forward, read off the step *)

PassesChecks(st) ==
    /\ current_hop(st.pkt) = st.node
    /\ next_hop(st.pkt) # None
    /\ next_hop(st.pkt) \in packet_send[st.node]

Forwarded(st) ==
    \E w \in Range(st.eff.sends) :
        w.pkt = increase_hop_index(st.pkt) /\ w.to = next_hop(st.pkt)

NacksOfType(st, nt) == { n \in GeneratedNacks(st) : n.nack_type = nt }

----------------------------------------------------------------------------
----------------------------------------------------------------------------
(* C7: at a drone with pdr = 0 the drop policy never drops a Fragment,     *)
(* whatever the draw: no Dropped NACK, no PacketDropped for the fragment   *)
(* as it arrived.                                                          *)
C7_NeverDropped ==
    \A st \in NormalSteps :
        pdr[st.node] = 0
        => /\ NacksOfType(st, "Dropped") = {}
           /\ \A e \in Range(st.eff.events) :
                ~(e.kind = "PacketDropped" /\ e.pkt = st.pkt)

----------------------------------------------------------------------------
(* C9: exactly one outcome per packet handled in normal mode, in the order *)
(* UnexpectedRecipient, DestinationIsDrone, ErrorInRouting(next) or        *)
(* ControllerShortcut, Dropped, forward.                                   *)
Shortcut(st) ==
    st.eff.events = <<Event("ControllerShortcut", increase_hop_index(st.pkt))>>

OnlyNack(st, nt, nn) ==
    /\ ~st.eff.panic
    /\ ~Forwarded(st)
    /\ Cardinality(GeneratedNacks(st)) = 1
    /\ \A n \in GeneratedNacks(st) : n.nack_type = nt /\ n.nack_node = nn

C9_Outcome(st) ==
    LET p == st.pkt
        d == st.node
    IN IF current_hop(p) # d THEN OnlyNack(st, "UnexpectedRecipient", d)
       ELSE IF next_hop(p) = None THEN OnlyNack(st, "DestinationIsDrone", None)
       ELSE IF next_hop(p) \notin packet_send[d]
            THEN IF p.type = "MsgFragment"
                 THEN OnlyNack(st, "ErrorInRouting", next_hop(p))
                 ELSE Shortcut(st) /\ GeneratedNacks(st) = {} /\ ~Forwarded(st)
       ELSE \/ p.type = "MsgFragment" /\ OnlyNack(st, "Dropped", None)
            \/ Forwarded(st) /\ GeneratedNacks(st) = {} /\ ~st.eff.panic

C9_OrderedOutcome == \A st \in NormalSteps : C9_Outcome(st)

----------------------------------------------------------------------------
(* C10: a packet whose hops[hop_index] is not the drone, for every value   *)
(* of hop_index, is not forwarded and is answered by exactly one           *)
(* UnexpectedRecipient(self) NACK with hops = reverse(hops[0..=hop_index]  *)
(* with its last element replaced by self), hop_index = 1; the drone keeps *)
(* running.                                                                *)
C10_UnexpectedRecipient ==
    \A st \in NormalSteps :
        current_hop(st.pkt) # st.node
        => /\ OnlyNack(st, "UnexpectedRecipient", st.node)
           /\ status[st.node] = "running"
           /\ \A n \in GeneratedNacks(st) :
                Len(st.pkt.hops) > 1 /\ st.pkt.hop_index < Len(st.pkt.hops)
                => /\ n.hops = Reverse(Append(Prefix(st.pkt.hops, st.pkt.hop_index), st.node))
                   /\ n.hop_index = 1

----------------------------------------------------------------------------
(* C11: an Ack, Nack or FloodResponse that passes the recipient and        *)
(* terminal checks is never dropped and never answered with a NACK,        *)
(* whatever the pdr, in normal and in crash mode: it is written to the     *)
(* next hop with PacketSent, or, when the next hop is not a neighbour or   *)
(* the write fails, handed to the controller as ControllerShortcut         *)
(* carrying that packet.                                                   *)
ControlSteps ==
    { st \in Range(last) :
        /\ st.pkt.type \in {"Ack", "Nack", "FloodResponse"}
        /\ current_hop(st.pkt) = st.node
        /\ next_hop(st.pkt) # None }

SentOn(st) ==
    /\ next_hop(st.pkt) \in packet_send[st.node]
    /\ st.eff.sends = <<Write(next_hop(st.pkt), increase_hop_index(st.pkt))>>
    /\ st.eff.events = <<Event("PacketSent", increase_hop_index(st.pkt))>>

ShortcutOn(st) ==
    /\ next_hop(st.pkt) \notin packet_send[st.node] \/ next_hop(st.pkt) \in closed
    /\ st.eff.sends = <<>>
    /\ Shortcut(st)

C11_ControlNeverDropped ==
    \A st \in ControlSteps :
        /\ ~st.eff.panic
        /\ GeneratedNacks(st) = {}
        /\ \A e \in Range(st.eff.events) : e.kind # "PacketDropped"
        /\ SentOn(st) \/ ShortcutOn(st)

\* an Ack drained after Crash whose next hop is not a neighbour goes to the
\* controller
C11_Witness ==
    \E st \in ControlSteps :
        /\ st.mode = "crash"
        /\ st.pkt.type = "Ack"
        /\ ShortcutOn(st)

\* a FloodResponse whose next hop is a neighbour with a dropped receiver
C11_FailedWrite ==
    \E st \in ControlSteps :
        /\ st.pkt.type = "FloodResponse"
        /\ next_hop(st.pkt) \in packet_send[st.node]
        /\ ShortcutOn(st)

----------------------------------------------------------------------------
(* Reassembly of one fragmented message, fragments arriving in any order *)

PayloadLens == {1, 127, 128, 129, 256, 257, 300}
PayloadSeeds == {0, 1}

\* bytes 1..5, so that the zero padding of a fragment is never payload
PayloadOf(len, seed) == [i \in 1 .. len |-> 1 + ((i + seed) % 5)]

AsmSession == CHOOSE s \in SessionIds : TRUE
AsmPeer == Me

InitAsm ==
    /\ FabricInit
    /\ pdr = [d \in Drones |-> 0]
    /\ \E len \in PayloadLens : \E seed \in PayloadSeeds :
        /\ payload = PayloadOf(len, seed)
        /\ wire = Range(fragment_message(payload))
        /\ cwire = Range(fragment_message(payload))
    /\ asm = AsmEmpty
    /\ casm = AsmEmpty
    /\ peer_wire = {}
    /\ EpIdle

\* the endpoint hands an arrived fragment to types.rs add_fragment
AsmAddFragment(f) ==
    /\ ~asm.panicked
    /\ f \in wire
    /\ wire' = wire \ {f}
    /\ asm' = add_fragment(asm, AsmSession, f)
    /\ UNCHANGED <<fabricVars, payload, cwire, casm, peer_wire, epVars>>

\* the endpoint hands an arrived fragment to assembler.rs add_fragment
CAsmAddFragment(f) ==
    /\ ~casm.panicked
    /\ f \in cwire
    /\ cwire' = cwire \ {f}
    /\ casm' = common_add_fragment(casm, <<AsmSession, AsmPeer>>, f)
    /\ UNCHANGED <<fabricVars, payload, wire, asm, peer_wire, epVars>>

\* fragments a peer can put on the wire that no fragmenter makes: an index
\* at or past total_n_fragments, a length (u8) above 128
InvalidFragments ==
    { Fragment(Len(fragment_message(payload)) + k, Len(fragment_message(payload)),
               1, PayloadOf(FragSize, 0)) : k \in {0, 1} }
    \cup { Fragment(0, Len(fragment_message(payload)), len, PayloadOf(FragSize, 0)) :
              len \in {129, 255} }

\* such a fragment is handed to types.rs add_fragment
AsmAddInvalid(f) ==
    /\ ~asm.panicked
    /\ asm' = add_fragment(asm, AsmSession, f)
    /\ UNCHANGED <<fabricVars, payload, wire, cwire, casm, peer_wire, epVars>>

\* such a fragment is handed to assembler.rs add_fragment
CAsmAddInvalid(f) ==
    /\ ~casm.panicked
    /\ casm' = common_add_fragment(casm, <<AsmSession, AsmPeer>>, f)
    /\ UNCHANGED <<fabricVars, payload, wire, asm, cwire, peer_wire, epVars>>

\* a fragment that arrived before arrives again (the sender retransmitted it)
\* and is handed to types.rs add_fragment once more
AsmAddDuplicate(f) ==
    /\ ~asm.panicked
    /\ f \notin wire
    /\ asm' = add_fragment(asm, AsmSession, f)
    /\ UNCHANGED <<fabricVars, payload, wire, cwire, casm, peer_wire, epVars>>

NextAsm ==
    \/ \E f \in wire : AsmAddFragment(f)
    \/ \E f \in cwire : CAsmAddFragment(f)
    \/ \E f \in Range(fragment_message(payload)) : AsmAddDuplicate(f)
    \/ \E f \in InvalidFragments : AsmAddInvalid(f)
    \/ \E f \in InvalidFragments : CAsmAddInvalid(f)

SpecAsm == InitAsm /\ [][NextAsm]_vars

----------------------------------------------------------------------------
(* C3: assembler reversibility.  Once every fragment of the session has    *)
(* been handed to add_fragment, in any arrival order, the call that        *)
(* completed the session returned exactly the payload P.                   *)
C3_Reversible ==
    wire = {} => /\ ~asm.panicked
                 /\ asm.ret = SomeRet(payload)

----------------------------------------------------------------------------
(* The endpoint Me with the network around it: its controller and its      *)
(* application call into the routing handler, the network delivers packets *)
(* to its queue, and run() handles them one at a time.  The drones do not  *)
(* move here: queue[d] keeps, in order, what the endpoint wrote to d.      *)

MaxEpOps == 3       \* commands and application calls
MaxDeliver == 3     \* packets the network delivers to the endpoint

EpNeighbors == {11, 12}
MsgLens == {1, 129}
Messages == { PayloadOf(len, 1) : len \in MsgLens }

EpCommands ==
    [kind : {"AddSender"}, node : EpNeighbors]
    \cup [kind : {"RemoveSender"}, node : {11}]
    \cup [kind : {"Shutdown"}, node : {None}]
    \cup [kind : {"Disconnected"}, node : {None}]

EpStatusAfter(c) ==
    CASE c.res = "ok" -> "running"
      [] c.res = "panic" -> "panicked"
      [] c.res = "diverge" -> "diverged"
      [] OTHER -> "exited"          \* run(): handle_packet(..).is_err() => exit(0)

\* run(): the command arm, with handle_command of the endpoint types.  With
\* the controller's sender dropped the arm is taken with Err on every round
\* of the loop (`if let Ok(cmd)` does not match): the biased select never
\* reaches the packet arm again and run() never returns
EpCommand(cmd) ==
    /\ ep_status = "running"
    /\ ep_ops < MaxEpOps
    /\ ep_ops' = ep_ops + 1
    /\ LET c == CASE cmd.kind = "AddSender" -> add_neighbor(Ctx(rh), cmd.node)
                  [] cmd.kind = "RemoveSender" -> remove_neighbor(Ctx(rh), cmd.node)
                  [] OTHER -> Ctx(rh)
       IN /\ rh' = c.rh
          /\ ep_last' = EpLast(cmd.kind, NoPkt, c, NoneRet)
    /\ ep_status' = CASE cmd.kind = "Shutdown" -> "exited"
                      [] cmd.kind = "Disconnected" -> "diverged"
                      [] OTHER -> "running"
    /\ UNCHANGED <<fabricVars, asmVars, ep_acked>>

\* an application call that returns a Result leaves the process running
\* unless it panics or never returns
EpCall(op, c) ==
    /\ rh' = c.rh
    /\ queue' = ApplySends(queue, c.sends)
    /\ ep_last' = EpLast(op, NoPkt, c, NoneRet)
    /\ ep_status' = IF c.res \in {"panic", "diverge"} THEN EpStatusAfter(c) ELSE "running"
    /\ ep_ops' = ep_ops + 1
    /\ UNCHANGED <<polled, pending_sends, cmdq, packet_send, pdr, flood_session, status, closed, last,
                   injected, ncmd, asmVars, ep_acked>>

\* the application starts a discovery
EpStartFlood ==
    /\ ep_status = "running"
    /\ ep_ops < MaxEpOps
    /\ EpCall("start_flood", start_flood(Ctx(rh)))

\* the application sends a message with a fresh session id
EpSendMessage(message, destination) ==
    /\ ep_status = "running"
    /\ ep_ops < MaxEpOps
    /\ EpCall("send_message", send_message(Ctx(rh), message, destination, 0))

\* run(): the packet arm, with Processor::handle_packet
EpHandlePacket ==
    /\ ep_status = "running"
    /\ queue[Me] # <<>>
    /\ \E pkt \in {Head(queue[Me])} :
       \E h \in {ep_handle_packet(Ctx(rh), casm, pkt)} :
          /\ queue' = ApplySends([queue EXCEPT ![Me] = Tail(@)], h.c.sends)
          /\ rh' = h.c.rh
          /\ casm' = h.a
          /\ ep_status' = EpStatusAfter(h.c)
          /\ ep_last' = EpLast("packet", pkt, h.c, h.msg)
          /\ ep_acked' = IF pkt.type = "Ack" /\ pkt.hops # <<>>
                         THEN ep_acked \cup
                              {<<pkt.session_id, pkt.fragment_index, Get(pkt.hops, 0)>>}
                         ELSE ep_acked
    /\ UNCHANGED <<polled, pending_sends, cmdq, packet_send, pdr, flood_session, status, closed, last,
                   injected, ncmd, payload, wire, asm, cwire, peer_wire, ep_ops>>

\* fragments the endpoint has written to its neighbours so far
SentFragments ==
    { p \in UNION { Range(queue[d]) : d \in Drones } : p.type = "MsgFragment" }

\* what the network sends back for a fragment w: the destination's Ack, and
\* the NACKs of the drones on its route (route = the reversed prefix up to
\* the drone, arriving with hop_index on the source)
AnswersTo(w) ==
    LET n == Len(w.hops)
        back(i) == Reverse(Prefix(w.hops, i + 1))
    IN { new_ack(Reverse(w.hops), n - 1, w.session_id, w.fragment_index) }
       \cup { new_nack(back(i), i, w.session_id, w.fragment_index, "Dropped", None) :
                i \in 1 .. n - 2 }
       \cup { new_nack(back(1), 1, w.session_id, w.fragment_index, "ErrorInRouting",
                       Get(w.hops, 2)) : i \in 1 .. n - 2 }
       \cup { new_nack(back(1), 1, w.session_id, w.fragment_index,
                       "UnexpectedRecipient", Get(w.hops, 1)) : i \in 1 .. n - 2 }
       \cup { new_nack(Reverse(w.hops), n - 1, w.session_id, w.fragment_index,
                       "DestinationIsDrone", None) }

\* path traces of the responses to a flood of Me (FloodRequest::new leaves
\* the trace empty, so the initiator is not in it)
FloodTraces ==
    { <<<<11, "Drone">>, <<12, "Drone">>, <<21, "Server">>>>,
      <<<<11, "Drone">>, <<12, "Drone">>>> }

FloodAnswers ==
    { new_flood_response(Append(Reverse(TraceIds(t)), Me), Len(t), rh.session_counter,
                         f, t) :
        <<f, t>> \in ((rh.flood_counter - 1 .. rh.flood_counter) \ {0}) \X FloodTraces }

PeerSessions == {7}
PeerSession == CHOOSE s \in PeerSessions : TRUE

\* traffic that other nodes start: a fragment of the server, a flood of it
Unsolicited ==
    { new_fragment(<<21, 12, 11, Me>>, 3, PeerSession, 0, 1, FragSize,
                   chunks(PayloadOf(1, 1))[1]),
      new_flood_request(PeerSession, 1, 21,
                        <<<<21, "Server">>, <<12, "Drone">>, <<11, "Drone">>>>) }

Deliverable ==
    UNION { AnswersTo(w) : w \in SentFragments }
    \cup (IF rh.flood_counter >= 1 THEN FloodAnswers ELSE {})
    \cup Unsolicited

\* a neighbour writes a packet to the endpoint's queue
NetDeliver(p) ==
    /\ Len(injected) < MaxDeliver
    /\ queue' = [queue EXCEPT ![Me] = Append(@, p)]
    /\ injected' = Append(injected, Write(Me, p))
    /\ UNCHANGED <<polled, pending_sends, cmdq, packet_send, pdr, flood_session, status, closed, last, ncmd,
                   asmVars, epVars>>

\* a neighbouring drone terminates and the receiver of its queue is dropped
NetClose(d) ==
    /\ d \notin closed
    /\ closed' = closed \cup {d}
    /\ status' = [status EXCEPT ![d] = "crashed"]
    /\ UNCHANGED <<polled, pending_sends, queue, cmdq, packet_send, pdr, flood_session, last, injected, ncmd,
                   asmVars, epVars>>

InitEp ==
    /\ FabricInit
    /\ pdr = [d \in Drones |-> 0]
    /\ AsmIdle
    /\ EpIdle

NextEp ==
    \/ \E cmd \in EpCommands : EpCommand(cmd)
    \/ EpStartFlood
    \/ \E m \in Messages : \E dest \in Servers : EpSendMessage(m, dest)
    \/ EpHandlePacket
    \/ \E p \in Deliverable : NetDeliver(p)
    \/ NetClose(11)

SpecEp == InitEp /\ [][NextEp]_vars

\* the buffer has an entry of session s
HasEntry(s) == \E k \in DOMAIN rh.packets_received : k[1] = s

\* every fragment index of session s has been written to a neighbour
AllSent(s) ==
    \E p \in SentFragments :
        /\ p.session_id = s
        /\ \A i \in 0 .. p.total - 1 :
              \E q \in SentFragments : q.session_id = s /\ q.fragment_index = i

\* an Ack of the destination has been handled for every fragment of s
AckedAll(s) ==
    \A p \in SentFragments :
        p.session_id = s => <<s, p.fragment_index, Last(p.hops)>> \in ep_acked

(* C4: retransmission.  When the packet loop has handled a Dropped NACK    *)
(* for fragment i of session s, a fragment the endpoint sent earlier, not  *)
(* yet acknowledged, and whose first hop is still a reachable neighbour,   *)
(* the handler has written that fragment (same session, index, data and    *)
(* destination) to a neighbour again.                                      *)
C4_Retransmit ==
    (/\ ep_status = "running"
     /\ ep_last.op = "packet"
     /\ ep_last.pkt.type = "Nack"
     /\ ep_last.pkt.nack_type = "Dropped")
    => \A f \in SentFragments :
        (/\ f.session_id = ep_last.pkt.session_id
         /\ f.fragment_index = ep_last.pkt.fragment_index
         /\ <<f.session_id, f.fragment_index, Last(f.hops)>> \notin ep_acked
         /\ Get(f.hops, 1) \in rh.neighbors
         /\ Open(Get(f.hops, 1)))
        => \E w \in Range(ep_last.sends) :
              /\ w.pkt.type = "MsgFragment"
              /\ w.pkt.session_id = f.session_id
              /\ w.pkt.fragment_index = f.fragment_index
              /\ w.pkt.data = f.data
              /\ Last(w.pkt.hops) = Last(f.hops)

(* C5: buffer reclamation.  For a session all of whose fragments the       *)
(* endpoint has sent, the retransmission buffer holds no entry of the      *)
(* session once the packet loop has handled an Ack from the destination    *)
(* for every fragment index, and holds one until then.                     *)
C5_BufferCleared ==
    ep_status = "running"
    => \A s \in { p.session_id : p \in SentFragments } :
          AllSent(s) => (AckedAll(s) <=> ~HasEntry(s))

----------------------------------------------------------------------------
(* Flood over a cycle: client 1 - drone 11, drones 11, 12, 13 pairwise    *)
(* connected, drone 13 - server 21                                         *)

MaxFloods == 2

FloodTopology == (11 :> {1, 12, 13}) @@ (12 :> {11, 13}) @@ (13 :> {11, 12, 21})

FloodIds == {0, 1}

\* what client 1 writes to drone 11 to start a flood
FloodStarts ==
    { new_flood_request(s, f, Me, t) :
        <<s, f, t>> \in SessionIds \X FloodIds \X { <<>>, <<<<Me, "Client">>>> } }

StartFlood(p) ==
    /\ Len(injected) < MaxFloods
    /\ queue' = [queue EXCEPT ![11] = Append(@, p)]
    /\ injected' = Append(injected, Write(11, p))
    /\ UNCHANGED <<polled, pending_sends, cmdq, packet_send, pdr, flood_session, status, closed, last, ncmd, asmVars, epVars>>

InitFlood ==
    /\ queue = [n \in Nodes |-> <<>>]
    /\ cmdq = [d \in Drones |-> <<>>]
    /\ packet_send = FloodTopology
    /\ pdr = [d \in Drones |-> 0]
    /\ flood_session = [d \in Drones |-> {}]
    /\ status = [d \in Drones |-> "running"]
    /\ closed = {}
    /\ last = <<>>
    /\ injected = <<>>
    /\ ncmd = 0
    /\ pending_sends = [d \in Drones |-> {}]
    /\ polled = Drones
    /\ AsmIdle
    /\ EpIdle

\* run(): the packet arm up to the first write; the writes the handler
\* makes are left pending, to be made one by one in the order the HashMap
\* iteration happens to give
ReceivePacket(d) ==
    /\ status[d] = "running"
    /\ d \in polled
    /\ pending_sends[d] = {}
    /\ queue[d] # <<>>
    /\ LET p == Head(queue[d])
           eff == handle_packet(d, flood_session[d], p, 0)
       IN /\ queue' = [queue EXCEPT ![d] = Tail(@)]
          /\ pending_sends' = [pending_sends EXCEPT ![d] = Range(eff.sends)]
          /\ status' = IF eff.panic THEN [status EXCEPT ![d] = "panicked"] ELSE status
          /\ flood_session' = IF p.type = "FloodRequest"
                              THEN [flood_session EXCEPT ![d] = @ \cup {flood_key(p)}]
                              ELSE flood_session
          /\ last' = <<Step(d, "normal", p, eff)>>
    /\ UNCHANGED <<polled, cmdq, packet_send, pdr, closed, injected, ncmd, asmVars, epVars>>

\* one neighbor.send(..) of the running handler
SendNext(d, w) ==
    /\ w \in pending_sends[d]
    /\ pending_sends' = [pending_sends EXCEPT ![d] = @ \ {w}]
    /\ queue' = [queue EXCEPT ![w.to] = Append(@, w.pkt)]
    /\ UNCHANGED <<polled, cmdq, packet_send, pdr, flood_session, status, closed, last, injected, ncmd, asmVars, epVars>>

NextFlood ==
    \/ \E p \in FloodStarts : StartFlood(p)
    \/ \E d \in Drones : ReceivePacket(d)
    \/ \E d \in Drones : \E w \in pending_sends[d] : SendNext(d, w)

FloodQuiescent == Quiescent /\ \A d \in Drones : pending_sends[d] = {}

SpecFlood == InitFlood /\ [][NextFlood]_vars

\* the step taken is drone d's packet arm on a FloodRequest
FloodStepOf(d) ==
    /\ status[d] = "running" /\ d \in polled /\ queue[d] # <<>>
    /\ Head(queue[d]).type = "FloodRequest"
    /\ Len(queue'[d]) = Len(queue[d]) - 1
    /\ last' = <<Step(d, "normal", Head(queue[d]), last'[1].eff)>>

FloodCopies(st) ==
    { w \in Range(st.eff.sends) : w.pkt.type = "FloodRequest" }

FloodReplies(st) ==
    { e.pkt : e \in { x \in Range(st.eff.events) :
                        /\ x.kind \in {"PacketSent", "ControllerShortcut"}
                        /\ x.pkt.type = "FloodResponse" } }

----------------------------------------------------------------------------
(* C12: monotonic flood keys.  A drone broadcasts a request for a given    *)
(* (flood_id, initiator_id) pair at most once: a receipt whose pair is     *)
(* already in the seen set is answered with a FloodResponse and is not     *)
(* forwarded, every receipt puts its pair in the seen set, and the seen    *)
(* set only grows.                                                         *)
C12_Step ==
    \A d \in Drones :
        /\ flood_session[d] \subseteq flood_session'[d]
        /\ FloodStepOf(d)
           => /\ flood_key(Head(queue[d])) \in flood_session'[d]
              /\ flood_key(Head(queue[d])) \in flood_session[d]
                 => /\ FloodCopies(last'[1]) = {}
                    /\ Cardinality(FloodReplies(last'[1])) = 1
                    /\ Len(last'[1].eff.events) = 1

C12_MonotonicFloodKeys == [][C12_Step]_vars

\* a drone with several neighbours answered a request: its pair was seen
C12_Witness ==
    \E st \in Range(last) :
        /\ st.pkt.type = "FloodRequest"
        /\ Cardinality(packet_send[st.node]) > 1
        /\ FloodCopies(st) = {}
        /\ FloodReplies(st) # {}

----------------------------------------------------------------------------
(* C13: on the first receipt of a FloodRequest for a (flood_id,            *)
(* initiator_id) pair, a drone with more than one neighbour sends one copy *)
(* (path_trace extended with (self, Drone), empty routing header, same     *)
(* session_id) to every neighbour except the previous hop (the last node   *)
(* of the received path_trace, or the initiator if the trace is empty) and *)
(* to no one else, with one PacketSent per delivered copy; a copy that     *)
(* cannot be delivered is reported as ControllerShortcut.                  *)
C13_Copy(d, p) ==
    new_flood_request(p.session_id, p.flood_id, p.initiator_id,
                      Append(p.path_trace, <<d, "Drone">>))

C13_Targets(d, p) ==
    packet_send[d] \ { IF p.path_trace = <<>> THEN p.initiator_id
                       ELSE p.path_trace[Len(p.path_trace)][1] }

C13_Broadcast(d, p, eff) ==
    /\ ~eff.panic
    /\ Range(eff.sends) = { Write(t, C13_Copy(d, p)) : t \in C13_Targets(d, p) \ closed }
    /\ Len(eff.sends) = Cardinality(C13_Targets(d, p) \ closed)
    /\ Len(eff.events) = Cardinality(C13_Targets(d, p))
    /\ Range(eff.events) \subseteq { Event("PacketSent", C13_Copy(d, p)),
                                     Event("ControllerShortcut", C13_Copy(d, p)) }
    /\ Len(SelectSeq(eff.events, LAMBDA e : e.kind = "PacketSent")) = Len(eff.sends)

C13_Step ==
    \A d \in Drones :
        ( /\ FloodStepOf(d)
          /\ flood_key(Head(queue[d])) \notin flood_session[d]
          /\ Cardinality(packet_send[d]) > 1 )
        => C13_Broadcast(d, Head(queue[d]), last'[1].eff)

C13_FirstReceipt == [][C13_Step]_vars

\* a request broadcast to two neighbours while a third one is gone
C13_Witness ==
    \E st \in Range(last) :
        /\ st.mode = "normal"
        /\ Cardinality(FloodCopies(st)) = 2
        /\ Event("ControllerShortcut", C13_Copy(st.node, st.pkt)) \in Range(st.eff.events)

----------------------------------------------------------------------------
(* C14: a drone with exactly one neighbour answers every FloodRequest with *)
(* a FloodResponse and never forwards it.  The response's path_trace is    *)
(* the received trace with (self, Drone) appended, its header is the       *)
(* reverse of the trace's node ids (initiator appended if it is not        *)
(* already last) with hop_index = 1, and it is sent to hops[1].            *)
C14_Route(d, p) ==
    LET ids == Reverse(Append(TraceIds(p.path_trace), d))
    IN IF ids[Len(ids)] = p.initiator_id THEN ids ELSE Append(ids, p.initiator_id)

C14_Response(d, p) ==
    new_flood_response(C14_Route(d, p), 1, p.session_id, p.flood_id,
                       Append(p.path_trace, <<d, "Drone">>))

C14_Sent(d, p, eff) ==
    /\ ~eff.panic
    /\ eff.sends = <<Write(C14_Route(d, p)[2], C14_Response(d, p))>>
    /\ eff.events = <<Event("PacketSent", C14_Response(d, p))>>

C14_Shortcut(d, p, eff) ==
    /\ ~eff.panic
    /\ C14_Route(d, p)[2] \notin packet_send[d] \/ C14_Route(d, p)[2] \in closed
    /\ eff.sends = <<>>
    /\ eff.events = <<Event("ControllerShortcut", C14_Response(d, p))>>

OneNeighbourStep(d) ==
    FloodStepOf(d) /\ Cardinality(packet_send[d]) = 1

\* the claim as stated: the response is always sent to hops[1]
C14_AlwaysSent ==
    [][\A d \in Drones :
         OneNeighbourStep(d) => C14_Sent(d, Head(queue[d]), last'[1].eff)]_vars

\* as amended: ... and it is sent to hops[1] when hops[1] is a neighbour
\* whose channel accepts it, and handed to the controller as
\* ControllerShortcut otherwise
C14_OneNeighbour ==
    [][\A d \in Drones :
         OneNeighbourStep(d)
         => \/ /\ C14_Route(d, Head(queue[d]))[2] \in packet_send[d] \ closed
               /\ C14_Sent(d, Head(queue[d]), last'[1].eff)
            \/ C14_Shortcut(d, Head(queue[d]), last'[1].eff)]_vars

\* drone 13, whose only neighbour is 12, has answered a request
C14_Witness ==
    \E st \in Range(last) :
        /\ st.mode = "normal"
        /\ st.pkt.type = "FloodRequest"
        /\ packet_send[st.node] = {12}
        /\ C14_Sent(st.node, st.pkt, st.eff)

----------------------------------------------------------------------------
(* C15: in the topology client 1 - drone 11, drones 11, 12, 13 pairwise    *)
(* connected, server 21 - drone 13, for a flood started by client 1 and    *)
(* under every interleaving of the three drones, server 21 receives        *)
(* exactly one FloodRequest for that (flood_id, initiator): never more     *)
(* than one, and one once the drones have nothing left to handle.  Its     *)
(* path_trace is what the client wrote ([(1, Client)] in the test)         *)
(* followed by (11, Drone), (13, Drone) or by (11, Drone), (12, Drone),    *)
(* (13, Drone).                                                            *)
ServerCopies(f, i) ==
    { k \in DOMAIN queue[21] :
        /\ queue[21][k].type = "FloodRequest"
        /\ queue[21][k].flood_id = f
        /\ queue[21][k].initiator_id = i }

StartedTraces(f, i) ==
    { w.pkt.path_trace : w \in { x \in Range(injected) :
                                   x.pkt.flood_id = f /\ x.pkt.initiator_id = i } }

Via13 == << <<11, "Drone">>, <<13, "Drone">> >>
Via12 == << <<11, "Drone">>, <<12, "Drone">>, <<13, "Drone">> >>

C15_OneCopy ==
    \A w \in Range(injected) :
        LET f == w.pkt.flood_id
            i == w.pkt.initiator_id
        IN /\ Cardinality(ServerCopies(f, i)) <= 1
           /\ FloodQuiescent => Cardinality(ServerCopies(f, i)) = 1
           /\ \A k \in ServerCopies(f, i) :
                \E t \in StartedTraces(f, i) :
                    queue[21][k].path_trace \in { t \o Via13, t \o Via12 }

\* the copy that went through drone 12 won the race to drone 13
C15_Witness ==
    /\ FloodQuiescent
    /\ Len(injected) = 1
    /\ \E k \in DOMAIN queue[21] :
          queue[21][k].path_trace = << <<Me, "Client">> >> \o Via12

----------------------------------------------------------------------------
(* C16: symmetric adjacency.  After the endpoint has started a flood on a  *)
(* failure-free network and every resulting FloodResponse has been         *)
(* processed, its network view is symmetric: whenever a node a of the view *)
(* lists b as adjacent, b is present in the view and lists a.              *)
SymmetricView(nodes) ==
    \A i \in DOMAIN nodes :
        \A b \in Range(nodes[i].adjacents) :
            \E j \in DOMAIN nodes :
                nodes[j].id = b /\ Contains(nodes[j].adjacents, nodes[i].id)

\* the responses to the current flood have all arrived and been handled, and
\* no neighbour has been lost
RoundComplete ==
    /\ ep_status = "running"
    /\ closed = {}
    /\ rh.flood_counter >= 1
    /\ rh.neighbors # {}
    /\ queue[Me] = <<>>
    /\ \A t \in FloodTraces :
          \E w \in Range(injected) :
              /\ w.pkt.type = "FloodResponse"
              /\ w.pkt.flood_id = rh.flood_counter
              /\ w.pkt.path_trace = t

C16_SymmetricView == RoundComplete => SymmetricView(rh.network_view)

----------------------------------------------------------------------------
(* send_message and find_path on the views an endpoint can have built *)

\* path traces of the responses to a flood of Me in a network where drones
\* 11, 12 and 13 are pairwise connected and 12 and 13 serve server 21
ViewTraces ==
    { <<<<11, "Drone">>, <<13, "Drone">>, <<21, "Server">>>>,
      <<<<12, "Drone">>, <<21, "Server">>>>,
      <<<<12, "Drone">>, <<13, "Drone">>, <<21, "Server">>>>,
      <<<<11, "Drone">>, <<12, "Drone">>, <<13, "Drone">>>>,
      <<<<11, "Drone">>, <<12, "Drone">>, <<13, "Drone">>, <<21, "Server">>>> }

RECURSIVE AddNeighbors(_, _)
AddNeighbors(c, ids) ==
    IF ids = <<>> THEN c ELSE AddNeighbors(add_neighbor(c, Head(ids)), Tail(ids))

RECURSIVE HandleResponses(_, _)
HandleResponses(c, traces) ==
    IF traces = <<>> THEN c
    ELSE HandleResponses(
            handle_flood_response(c, new_flood_response(
                Append(Reverse(TraceIds(Head(traces))), c.rh.id), Len(Head(traces)),
                c.rh.session_counter, c.rh.flood_counter, Head(traces))),
            Tail(traces))

\* AddSender for every id of the sequence ns, start_flood, the responses
\* with the traces ts, then RemoveSender(gone) unless gone = None
ViewAfter(ns, ts, gone) ==
    LET c == HandleResponses(
                start_flood(AddNeighbors(Ctx(RhNew(Me, "Client", {})), ns)), ts)
    IN IF gone = None THEN c ELSE remove_neighbor(c, gone)

SendLens == {0, 1, 128, 129, 257}

InitView ==
    /\ cmdq = [d \in Drones |-> <<>>]
    /\ packet_send = InitTopology
    /\ pdr = [d \in Drones |-> 0]
    /\ flood_session = [d \in Drones |-> {}]
    /\ status = [d \in Drones |-> "running"]
    /\ closed = {}
    /\ last = <<>>
    /\ injected = <<>>
    /\ ncmd = 0
    /\ pending_sends = [d \in Drones |-> {}]
    /\ polled = Drones
    /\ wire = {} /\ asm = AsmEmpty /\ cwire = {} /\ casm = AsmEmpty /\ peer_wire = {}
    /\ payload \in { PayloadOf(len, 1) : len \in SendLens }
    /\ \E a, b \in EpNeighbors :
       \E ns \in {IF a = b THEN <<a>> ELSE <<a, b>>} :
       \E ts \in {<<>>} \cup { <<t>> : t \in ViewTraces }
                        \cup { <<t, u>> : t \in ViewTraces, u \in ViewTraces } :
       \E gone \in {None, 11, 13} :
       \E c \in {ViewAfter(ns, ts, gone)} :
          /\ rh = c.rh
          /\ queue = ApplySends([n \in Nodes |-> <<>>], c.sends)
    /\ ep_status = "running"
    /\ ep_last = EpLast("none", NoPkt, Ctx(rh), NoneRet)
    /\ ep_ops = MaxEpOps - 1
    /\ ep_acked = {}

NextView == \E dest \in Nodes : EpSendMessage(payload, dest)

SpecView == InitView /\ [][NextView]_vars

----------------------------------------------------------------------------
(* C17: for every payload length >= 0 and a destination with a known       *)
(* route, send_message sends exactly max(1, ceil(len/128)) Fragment        *)
(* packets; fragment i carries fragment_index = i, total_n_fragments =     *)
(* that count and the bytes payload[128*i .. 128*(i+1)) zero-padded to     *)
(* 128; all fragments share one session_id and one route; with the session *)
(* argument None the session counter is incremented exactly once.          *)
C17_Count ==
    IF Len(payload) = 0 THEN 1 ELSE (Len(payload) + FragSize - 1) \div FragSize

C17_Data(i) ==
    [k \in 1 .. FragSize |->
        IF FragSize * i + k <= Len(payload) THEN payload[FragSize * i + k] ELSE 0]

C17_Fragments(route, sid) ==
    [i \in 1 .. C17_Count |->
        Write(route[2], new_fragment(route, 1, sid, i - 1, C17_Count, FragSize,
                                     C17_Data(i - 1)))]

C17_Sent(dest) ==
    /\ ep_last'.res = "ok"
    /\ rh'.session_counter = rh.session_counter + 1
    /\ ep_last'.sends = C17_Fragments(find_path(rh.network_view, dest),
                                      rh.session_counter + 1)

C17_SendMessage ==
    [][\A dest \in Nodes \ {Me} :
         (find_path(rh.network_view, dest) # <<>> /\ EpSendMessage(payload, dest))
         => C17_Sent(dest)]_vars

----------------------------------------------------------------------------
(* C18: find_path(dest) returns a path exactly when dest is reachable from *)
(* the owner through the adjacency lists of the view; the path starts with *)
(* the owner, ends with dest, contains no node twice, every consecutive    *)
(* pair is an adjacency recorded in the view, and no shorter such path     *)
(* exists; otherwise it returns nothing.                                   *)
AdjacentTo(nodes, a) ==
    UNION { Range(nodes[i].adjacents) : i \in { j \in DOMAIN nodes : nodes[j].id = a } }

\* the nodes at distance <= k from the owner, for k = 0, 1, ..
RECURSIVE Within(_, _)
Within(nodes, k) ==
    IF k = 0 THEN {nodes[1].id}
    ELSE Within(nodes, k - 1)
         \cup UNION { AdjacentTo(nodes, a) : a \in Within(nodes, k - 1) }

ViewIds(nodes) ==
    { nodes[i].id : i \in DOMAIN nodes } \cup UNION { Range(nodes[i].adjacents) : i \in DOMAIN nodes }

PathOk(nodes, dest, p) ==
    /\ p[1] = nodes[1].id
    /\ p[Len(p)] = dest
    /\ \A i, j \in DOMAIN p : i # j => p[i] # p[j]
    /\ \A i \in 1 .. Len(p) - 1 : p[i + 1] \in AdjacentTo(nodes, p[i])
    /\ dest \in Within(nodes, Len(p) - 1)
    /\ Len(p) > 1 => dest \notin Within(nodes, Len(p) - 2)

C18_FindPath ==
    \A dest \in Nodes :
        \E p \in {find_path(rh.network_view, dest)} :
            IF dest \in Within(rh.network_view, Cardinality(ViewIds(rh.network_view)))
            THEN p # <<>> /\ PathOk(rh.network_view, dest, p)
            ELSE p = <<>>

\* send_message has routed fragments over three links in a view where the
\* server is also reachable over four
C18_Witness ==
    /\ ep_last.op = "send_message"
    /\ \E w \in Range(ep_last.sends) : Len(w.pkt.hops) = 4
    /\ \E i \in DOMAIN rh.network_view :
          /\ rh.network_view[i].id = 12
          /\ Contains(rh.network_view[i].adjacents, 13)
          /\ Contains(rh.network_view[i].adjacents, 11)

----------------------------------------------------------------------------
(* C19: handling an ErrorInRouting(x) NACK removes x from the endpoint's   *)
(* neighbour map and from its network view (the node and every adjacency   *)
(* to it), starts a new flood (flood counter + 1, FloodStarted emitted, a  *)
(* FloodRequest sent to each remaining neighbour) and then retries the     *)
(* NACKed fragment.                                                        *)

\* the step taken is the packet loop handling an ErrorInRouting NACK
ErrorInRoutingStep ==
    /\ ep_status = "running"
    /\ queue[Me] # <<>>
    /\ Head(queue[Me]).type = "Nack"
    /\ Head(queue[Me]).nack_type = "ErrorInRouting"
    /\ Len(queue'[Me]) = Len(queue[Me]) - 1
    /\ ep_last'.op = "packet"
    /\ ep_last'.pkt = Head(queue[Me])

C19_Pruned(x) ==
    /\ x \notin rh'.neighbors
    /\ x \notin ViewIds(rh'.network_view)
    /\ rh'.neighbors = rh.neighbors \ ({x} \cup closed)

C19_Flooded(x) ==
    /\ rh'.flood_counter = rh.flood_counter + 1
    /\ \E req \in {new_flood_request(rh.session_counter + 1, rh.flood_counter + 1, Me, <<>>)} :
          /\ Event("FloodStarted", req) \in Range(ep_last'.events)
          /\ \A n \in rh.neighbors \ ({x} \cup closed) :
                Write(n, req) \in Range(ep_last'.sends)

\* the fragment the NACK names, sent earlier and not yet acknowledged, is
\* written to a neighbour again when a neighbour is left
C19_Retried(nack) ==
    \A f \in SentFragments :
        (/\ f.session_id = nack.session_id
         /\ f.fragment_index = nack.fragment_index
         /\ <<f.session_id, f.fragment_index, Last(f.hops)>> \notin ep_acked
         /\ rh'.neighbors # {})
        => \E w \in Range(ep_last'.sends) :
              /\ w.pkt.type = "MsgFragment"
              /\ w.pkt.session_id = f.session_id
              /\ w.pkt.fragment_index = f.fragment_index
              /\ w.pkt.data = f.data

C19_ErrorInRouting ==
    [][ErrorInRoutingStep
       => /\ C19_Pruned(Head(queue[Me]).nack_node)
          /\ C19_Flooded(Head(queue[Me]).nack_node)
          /\ C19_Retried(Head(queue[Me]))]_vars

----------------------------------------------------------------------------
(* C20: while draining its inbound queue after Crash, a drone answers      *)
(* every Fragment it finds there (for every hop_index >= 1 with            *)
(* hops[hop_index] = the drone) with an ErrorInRouting(self) NACK routed   *)
(* back to the fragment's source and with a PacketDropped event for the    *)
(* fragment, and does not forward it.                                      *)
DrainedFragments ==
    { st \in Range(last) :
        st.mode = "crash" /\ st.pkt.type = "MsgFragment" /\ AtPosition(st) }

C20_CrashDrain ==
    \A st \in DrainedFragments :
        /\ OnlyNack(st, "ErrorInRouting", st.node)
        /\ \A n \in GeneratedNacks(st) :
              /\ n.session_id = st.pkt.session_id
              /\ n.fragment_index = st.pkt.fragment_index
              /\ n.hop_index = 1
              /\ n.hops # <<>> /\ Last(n.hops) = Get(st.pkt.hops, 0)
        /\ Event("PacketDropped", st.pkt) \in Range(st.eff.events)

----------------------------------------------------------------------------
(* C21: an Ack, Nack or FloodResponse routed through a drone and written   *)
(* to its queue after the Crash command was sent to that drone is still    *)
(* forwarded to its next hop with hop_index increased by one: it never     *)
(* stays behind in the queue of the terminated drone.                      *)
LeftBehind(d) ==
    { p \in Range(queue[d]) :
        /\ p.type \in {"Ack", "Nack", "FloodResponse"}
        /\ p.hop_index >= 1
        /\ current_hop(p) = d
        /\ next_hop(p) \in packet_send[d]
        /\ Open(next_hop(p)) }

C21_ForwardedAfterCrash ==
    \A d \in Drones : status[d] = "crashed" => LeftBehind(d) = {}

\* the other order: the packet was in the queue when the drone took the
\* Crash command, and the drain forwarded it
C21_DrainedInTime ==
    \E st \in ControlSteps :
        /\ st.mode = "crash"
        /\ st.pkt \in { w.pkt : w \in Range(injected) }
        /\ SentOn(st)

----------------------------------------------------------------------------
(* C22: commands are applied before later packets.  A packet written to a  *)
(* drone's queue after an AddSender(n, q) command was placed in its        *)
(* command queue is processed with n in the neighbour map: when its next   *)
(* hop is n, it is not answered with ErrorInRouting(n) and not handed to   *)
(* the controller as a shortcut.  Placing a command and writing a packet   *)
(* commute, so every state in which both are waiting is reached by placing *)
(* the command first; the step below is the drone taking the packet while  *)
(* the command still waits.                                                *)
PacketStepOf(d) ==
    /\ status[d] = "running" /\ queue[d] # <<>>
    /\ Len(last') = 1
    /\ last' = <<Step(d, "normal", Head(queue[d]), last'[1].eff)>>
    /\ queue'[d] = Tail(queue[d]) \o SelectSeq2(last'[1].eff.sends, d)
    /\ cmdq' = cmdq

AddSenderWaiting(d, n) ==
    \E i \in DOMAIN cmdq[d] : cmdq[d][i].kind = "AddSender" /\ cmdq[d][i].node = n

C22_Step ==
    \A d \in Drones :
        (/\ PacketStepOf(d)
         /\ Head(queue[d]).type # "FloodRequest"
         /\ current_hop(Head(queue[d])) = d
         /\ AddSenderWaiting(d, next_hop(Head(queue[d]))))
        => /\ next_hop(Head(queue[d])) \in packet_send[d]
           /\ \A e \in Range(last'[1].eff.events) : e.kind # "ControllerShortcut"
           /\ \A w \in Range(last'[1].eff.sends) :
                 ~(w.pkt.type = "Nack" /\ w.pkt.nack_type = "ErrorInRouting")

C22_CommandsFirst == [][C22_Step]_vars

\* the order the select prefers: the command is taken first and the packet
\* that was waiting with it is then forwarded to the new neighbour
C22_CommandTaken ==
    \E st \in NormalSteps :
        /\ Len(injected) = 1 /\ injected[1].pkt = st.pkt /\ injected[1].to = st.node
        /\ current_hop(st.pkt) = st.node
        /\ next_hop(st.pkt) \notin InitTopology[st.node]
        /\ next_hop(st.pkt) \in packet_send[st.node]
        /\ Forwarded(st)

----------------------------------------------------------------------------
(* C23: try_send always terminates.  When the first hop of the packet is   *)
(* missing from the neighbour map or its queue is closed, the view holds   *)
(* no other path to the destination and other neighbours remain, try_send  *)
(* starts exactly one flood, parks the packet exactly once in the pending  *)
(* list and returns success.  Stated on the Ack an endpoint sends for a    *)
(* received Fragment, which is one call of try_send.                       *)
FragmentStep ==
    /\ ep_status = "running"
    /\ queue[Me] # <<>>
    /\ Head(queue[Me]).type = "MsgFragment"
    /\ Len(queue'[Me]) = Len(queue[Me]) - 1
    /\ ep_last'.op = "packet"
    /\ ep_last'.pkt = Head(queue[Me])

\* the first hop of the reversed route cannot be written to, nothing else
\* leads to the destination and an open neighbour is left
NoWayBack(p) ==
    /\ Len(p.hops) >= 2
    /\ Get(Reverse(p.hops), 1) \notin rh.neighbors \/ Get(Reverse(p.hops), 1) \in closed
    /\ find_path(remove_node(rh.network_view, Get(Reverse(p.hops), 1)), Get(p.hops, 0)) = <<>>
    /\ (rh.neighbors \ {Get(Reverse(p.hops), 1)}) \ closed # {}

FloodsStarted(events) ==
    Cardinality({ i \in DOMAIN events : events[i].kind = "FloodStarted" })

C23_Step ==
    (FragmentStep /\ NoWayBack(Head(queue[Me])))
    => /\ ep_last'.res = "ok"
       /\ FloodsStarted(ep_last'.events) = 1
       /\ rh'.flood_counter = rh.flood_counter + 1
       /\ Len(rh'.packets_to_send) = Len(rh.packets_to_send) + 1
       /\ rh'.packets_to_send[Len(rh'.packets_to_send)].type = "Ack"

C23_TrySendTerminates == [][C23_Step]_vars

----------------------------------------------------------------------------
(* C24: an endpoint answers every FloodRequest it takes from its queue     *)
(* with a FloodResponse of the same flood_id and never writes the request  *)
(* on to a neighbour, whatever the number of its neighbours and whether or *)
(* not it has seen the (flood_id, initiator_id) pair before.               *)
C24_LeafAnswer ==
    (ep_last.op = "packet" /\ ep_last.pkt.type = "FloodRequest")
    => /\ \A w \in Range(ep_last.sends) : w.pkt.type # "FloodRequest"
       /\ ep_last.res = "ok"
          => \E w \in Range(ep_last.sends) :
                /\ w.pkt.type = "FloodResponse"
                /\ w.pkt.flood_id = ep_last.pkt.flood_id

\* with one neighbour the request is answered and not passed on
C24_OneNeighbour ==
    /\ ep_last.op = "packet" /\ ep_last.pkt.type = "FloodRequest"
    /\ Cardinality(rh.neighbors) = 1
    /\ \E w \in Range(ep_last.sends) : w.pkt.type = "FloodResponse"
    /\ \A w \in Range(ep_last.sends) : w.pkt.type # "FloodRequest"

----------------------------------------------------------------------------
(* C25: in every reachable state of an endpoint, each entry of the         *)
(* retransmission buffer is kept under (session, self) and holds only      *)
(* Fragment packets the endpoint sent for that session, the packet at      *)
(* position i (counted from 0) having fragment_index = i; this also after  *)
(* retransmissions and after the endpoint has sent Acks or FloodResponses  *)
(* carrying the same session_id.                                           *)
C25_BufferShape ==
    \A k \in DOMAIN rh.packets_received :
        /\ k[2] = Me
        /\ \A i \in DOMAIN rh.packets_received[k] :
              /\ rh.packets_received[k][i][2].type = "MsgFragment"
              /\ rh.packets_received[k][i][2].session_id = k[1]
              /\ rh.packets_received[k][i][2].fragment_index = i - 1

\* the buffer after a message of two fragments was sent
C25_TwoFragments ==
    \E k \in DOMAIN rh.packets_received :
        /\ Len(rh.packets_received[k]) = 2
        /\ \A i \in 1 .. 2 :
              /\ rh.packets_received[k][i][2].type = "MsgFragment"
              /\ rh.packets_received[k][i][2].fragment_index = i - 1

----------------------------------------------------------------------------
(* C26: for each Fragment an endpoint takes from its inbound queue it      *)
(* sends exactly one Ack carrying the fragment's session_id and            *)
(* fragment_index, routed over the reverse of the fragment's hops, with a  *)
(* hop_index that makes the first drone on the way back accept it          *)
(* (hops[hop_index] = that drone).  Stated for fragments whose previous    *)
(* hop is a neighbour with an open queue.                                  *)
AcksOf(sends) == { i \in DOMAIN sends : sends[i].pkt.type = "Ack" }

C26_Step ==
    (/\ FragmentStep
     /\ Len(Head(queue[Me]).hops) >= 2
     /\ Get(Reverse(Head(queue[Me]).hops), 1) \in rh.neighbors \ closed)
    => /\ Cardinality(AcksOf(ep_last'.sends)) = 1
       /\ \A i \in AcksOf(ep_last'.sends) :
             /\ ep_last'.sends[i].pkt.session_id = Head(queue[Me]).session_id
             /\ ep_last'.sends[i].pkt.fragment_index = Head(queue[Me]).fragment_index
             /\ ep_last'.sends[i].pkt.hops = Reverse(Head(queue[Me]).hops)
             /\ ep_last'.sends[i].to = Get(Reverse(Head(queue[Me]).hops), 1)
             /\ current_hop(ep_last'.sends[i].pkt) = ep_last'.sends[i].to

C26_AckAccepted == [][C26_Step]_vars

\* what does hold of the Ack: one per fragment, same session and index,
\* reversed hops, written to the previous hop
C26_AckSent ==
    /\ ep_last.op = "packet" /\ ep_last.pkt.type = "MsgFragment"
    /\ Cardinality(AcksOf(ep_last.sends)) = 1
    /\ \A i \in AcksOf(ep_last.sends) :
          /\ ep_last.sends[i].pkt.session_id = ep_last.pkt.session_id
          /\ ep_last.sends[i].pkt.fragment_index = ep_last.pkt.fragment_index
          /\ ep_last.sends[i].pkt.hops = Reverse(ep_last.pkt.hops)

----------------------------------------------------------------------------
(* C27: when the write of a Fragment to the next hop's queue fails (the    *)
(* neighbour is in the map but its queue is closed), the drone sends an    *)
(* ErrorInRouting(next) NACK back toward the source, as it does when the   *)
(* neighbour is missing from the map.  The write is tried when the drop    *)
(* policy let the fragment pass, i.e. when no Dropped NACK was made.       *)
FailedWriteStep(d) ==
    /\ PacketStepOf(d)
    /\ Head(queue[d]).type = "MsgFragment"
    /\ Head(queue[d]).hop_index >= 1
    /\ current_hop(Head(queue[d])) = d
    /\ next_hop(Head(queue[d])) \in packet_send[d]
    /\ next_hop(Head(queue[d])) \in closed
    /\ NacksOfType(last'[1], "Dropped") = {}

C27_Step ==
    \A d \in Drones :
        FailedWriteStep(d)
        => OnlyNack(last'[1], "ErrorInRouting", next_hop(Head(queue[d])))

C27_FailedWriteNack == [][C27_Step]_vars

\* the case the claim compares with: the neighbour is missing from the map
C27_MissingNeighbour ==
    \E st \in NormalSteps :
        /\ st.pkt.type = "MsgFragment"
        /\ AtPosition(st)
        /\ next_hop(st.pkt) # None
        /\ next_hop(st.pkt) \notin packet_send[st.node]
        /\ OnlyNack(st, "ErrorInRouting", next_hop(st.pkt))

----------------------------------------------------------------------------
(* C28: when an endpoint cannot send the Ack for a received Fragment (the  *)
(* first hop back is missing or closed and no other neighbour is left),    *)
(* the Ack is handed to the controller as a shortcut, the fragment is      *)
(* still passed to the assembler, and the endpoint keeps running.          *)
NoNeighbourLeft(p) ==
    /\ Len(p.hops) >= 2
    /\ Get(Reverse(p.hops), 1) \notin rh.neighbors \/ Get(Reverse(p.hops), 1) \in closed
    /\ (rh.neighbors \ {Get(Reverse(p.hops), 1)}) \ closed = {}

C28_Step ==
    (FragmentStep /\ NoNeighbourLeft(Head(queue[Me])))
    => /\ \E e \in Range(ep_last'.events) :
             /\ e.kind = "ControllerShortcut"
             /\ e.pkt.type = "Ack"
             /\ e.pkt.session_id = Head(queue[Me]).session_id
             /\ e.pkt.fragment_index = Head(queue[Me]).fragment_index
       /\ casm' # casm \/ ep_last'.msg.some
       /\ ep_status' = "running"

C28_AckShortcut == [][C28_Step]_vars

----------------------------------------------------------------------------
(* C29: send_message with dest equal to the endpoint's own id sends no     *)
(* packet, stores nothing in the retransmission buffer and returns         *)
(* success, for every payload.  The step is the call whose outcome is that *)
(* of send_message(payload, self).                                         *)
SendToSelfStep(c) ==
    /\ ep_status = "running"
    /\ ep_ops' = ep_ops + 1
    /\ rh' = c.rh
    /\ ep_last' = EpLast("send_message", NoPkt, c, NoneRet)

C29_Step ==
    \A c \in {send_message(Ctx(rh), payload, Me, 0)} :
        SendToSelfStep(c)
        => /\ ep_last'.sends = <<>>
           /\ queue' = queue
           /\ rh'.packets_received = rh.packets_received
           /\ rh'.packets_to_send = rh.packets_to_send
           /\ ep_last'.res = "ok"

C29_SendToSelf == [][C29_Step]_vars

\* the empty payload: no fragment is made and the call returns Ok
C29_EmptyPayload ==
    /\ ep_last.op = "send_message"
    /\ payload = <<>>
    /\ ep_last.res = "ok"
    /\ ep_last.sends = <<>>

----------------------------------------------------------------------------
(* C30: FragmentAssembler::add_fragment discards a fragment with           *)
(* fragment_index >= total_n_fragments or length > 128: it returns         *)
(* nothing, leaves all reassembly state unchanged and does not abort the   *)
(* node.  The step is the call whose outcome is that of add_fragment on    *)
(* such a fragment.                                                        *)
C30_Step ==
    \A f \in InvalidFragments :
        (~asm.panicked /\ asm' # asm /\ wire' = wire
         /\ asm' = add_fragment(asm, AsmSession, f))
        => /\ ~asm'.panicked
           /\ asm'.ret = NoneRet
           /\ asm'.fragments = asm.fragments
           /\ asm'.expected_fragments = asm.expected_fragments
           /\ asm'.received_fragments = asm.received_fragments

C30_Discarded == [][C30_Step]_vars

\* the same for the assembler of common/src/assembler.rs
C30_CommonStep ==
    \A f \in InvalidFragments :
        (~casm.panicked /\ casm' # casm /\ cwire' = cwire
         /\ casm' = common_add_fragment(casm, <<AsmSession, AsmPeer>>, f))
        => /\ ~casm'.panicked
           /\ casm'.ret = NoneRet
           /\ casm'.fragments = casm.fragments

C30_CommonDiscarded == [][C30_CommonStep]_vars

----------------------------------------------------------------------------
(* C31: completion of a session.  While fragments of the session are still *)
(* missing, add_fragment returns nothing, also for a fragment that arrives *)
(* a second time; the arrival of the last missing index returns the        *)
(* payload, and after it the three maps hold nothing for the session.      *)

\* the step hands the fragmenter's fragment f to types.rs add_fragment for
\* the first time
FirstArrival(f) == f \in wire /\ wire' = wire \ {f} /\ casm' = casm

\* the step hands f to types.rs add_fragment again while the session is open
DuplicateArrival(f) ==
    /\ f \notin wire /\ wire # {} /\ wire' = wire /\ casm' = casm
    /\ asm' = add_fragment(asm, AsmSession, f)

SessionFreed(a) ==
    AsmSession \notin
        DOMAIN a.fragments \cup DOMAIN a.expected_fragments
            \cup DOMAIN a.received_fragments

C31_Step ==
    \A f \in Range(fragment_message(payload)) :
        (~asm.panicked /\ (FirstArrival(f) \/ DuplicateArrival(f))) =>
            /\ ~asm'.panicked
            /\ IF FirstArrival(f) /\ wire' = {}
               THEN asm'.ret = SomeRet(payload) /\ SessionFreed(asm')
               ELSE asm'.ret = NoneRet

C31_CompletesOnLastIndex == [][C31_Step]_vars

\* C31, the part about when the call returns: a value is returned on the
\* arrival of the last missing index and on no other, and the session is
\* freed then (the bytes returned are left open)
C31_TimingStep ==
    \A f \in Range(fragment_message(payload)) :
        (~asm.panicked /\ (FirstArrival(f) \/ DuplicateArrival(f))) =>
            /\ ~asm'.panicked
            /\ IF FirstArrival(f) /\ wire' = {}
               THEN asm'.ret.some /\ SessionFreed(asm')
               ELSE asm'.ret = NoneRet /\ ~SessionFreed(asm')

C31_ReturnsOnLastIndex == [][C31_TimingStep]_vars

\* C31 for the assembler of common/src/assembler.rs: the first fragment of
\* a session is taken without a panic
C31_CommonStep ==
    \A f \in Range(fragment_message(payload)) :
        (~casm.panicked /\ f \in cwire /\ cwire' = cwire \ {f} /\ asm' = asm) =>
            ~casm'.panicked

C31_CommonTakesFragment == [][C31_CommonStep]_vars

\* C31, duplicates: while an index is missing, handing an arrived fragment
\* to add_fragment again returns nothing and leaves the assembler as it was
C31_DuplicateIgnored ==
    (~asm.panicked /\ wire # {}) =>
        \A f \in Range(fragment_message(payload)) \ wire :
            add_fragment(asm, AsmSession, f) = [asm EXCEPT !.ret = NoneRet]

\* one fragment of several has arrived
C31_Partial ==
    /\ ~asm.panicked /\ wire # {} /\ wire # Range(fragment_message(payload))

----------------------------------------------------------------------------
(* Two peers send a message each to the same endpoint.  Every sender       *)
(* counts its sessions from its own counter, so both messages carry the    *)
(* same session id; the fragments arrive in any interleaving.              *)

\* the second peer's message: as long as the first, other bytes
PeerPayload == PayloadOf(Len(payload), 2)

InitPeers ==
    /\ FabricInit
    /\ pdr = [d \in Drones |-> 0]
    /\ \E len \in PayloadLens : \E seed \in PayloadSeeds :
        /\ payload = PayloadOf(len, seed)
        /\ wire = Range(fragment_message(payload))
        /\ cwire = Range(fragment_message(payload))
    /\ peer_wire = Range(fragment_message(PeerPayload))
    /\ asm = AsmEmpty
    /\ casm = AsmEmpty
    /\ EpIdle

\* handle_fragment takes src_id from the header and hands the fragment to
\* types.rs add_fragment with the session id alone
PeerAddFragment(f) ==
    /\ ~asm.panicked
    /\ f \in peer_wire
    /\ peer_wire' = peer_wire \ {f}
    /\ asm' = add_fragment(asm, AsmSession, f)
    /\ UNCHANGED <<fabricVars, payload, wire, cwire, casm, epVars>>

NextPeers ==
    \/ \E f \in wire : AsmAddFragment(f)
    \/ \E f \in peer_wire : PeerAddFragment(f)
    \/ \E f \in cwire : CAsmAddFragment(f)

SpecPeers == InitPeers /\ [][NextPeers]_vars

----------------------------------------------------------------------------
(* C32: reassembly state per (session_id, peer).  With two peers using the *)
(* same session id, add_fragment returns a message exactly when the last   *)
(* fragment of the peer it came from arrives, and the message is that      *)
(* peer's payload.                                                         *)

\* the step hands the second peer's fragment f to types.rs add_fragment
PeerArrival(f) == f \in peer_wire /\ peer_wire' = peer_wire \ {f}

C32_Step ==
    /\ \A f \in wire :
        (~asm.panicked /\ FirstArrival(f)) =>
            /\ ~asm'.panicked
            /\ asm'.ret.some <=> wire' = {}
            /\ asm'.ret.some => asm'.ret.data = payload
    /\ \A f \in peer_wire :
        (~asm.panicked /\ PeerArrival(f)) =>
            /\ ~asm'.panicked
            /\ asm'.ret.some <=> peer_wire' = {}
            /\ asm'.ret.some => asm'.ret.data = PeerPayload

C32_SeparatePeers == [][C32_Step]_vars

\* C32, the part about completion alone: a message is returned exactly on
\* the arrival of the last fragment of the peer the fragment came from
\* (the bytes returned are left open)
C32_OwnStep ==
    /\ \A f \in wire :
        (~asm.panicked /\ FirstArrival(f)) =>
            (~asm'.panicked /\ (asm'.ret.some <=> wire' = {}))
    /\ \A f \in peer_wire :
        (~asm.panicked /\ PeerArrival(f)) =>
            (~asm'.panicked /\ (asm'.ret.some <=> peer_wire' = {}))

C32_OwnFragmentsComplete == [][C32_OwnStep]_vars

\* C32 for the assembler of common/src/assembler.rs, which keys its maps by
\* <<session_id, sender>>: the first peer's fragment is taken without a panic
C32_CommonStep ==
    (~casm.panicked /\ casm' # casm) => ~casm'.panicked

C32_CommonSeparate == [][C32_CommonStep]_vars

\* messages of one fragment each: both are returned whole
C32_SingleFragments ==
    /\ Len(payload) <= FragSize /\ wire = {} /\ peer_wire = {}
    /\ ~asm.panicked /\ asm.ret.some
    /\ asm.ret.data \in {payload, PeerPayload}

----------------------------------------------------------------------------
----------------------------------------------------------------------------
(* C34: tie-break among shortest paths.  When the view holds several       *)
(* shortest paths from the owner to a destination, find_path returns the   *)
(* one that is smallest in the lexicographic order of the node ids, in     *)
(* whatever order the neighbours were added and the responses arrived.     *)

\* the paths of n nodes from the owner to dest along recorded adjacencies
PathsOfLen(nodes, dest, n) ==
    { q \in [1 .. n -> ViewIds(nodes)] :
        /\ q[1] = nodes[1].id
        /\ q[n] = dest
        /\ \A i \in 1 .. n - 1 : q[i + 1] \in AdjacentTo(nodes, q[i]) }

LexLeq(p, q) ==
    \/ p = q
    \/ \E i \in DOMAIN p : p[i] < q[i] /\ \A j \in 1 .. i - 1 : p[j] = q[j]

C34_LexicographicTieBreak ==
    \A dest \in Nodes :
        \E p \in {find_path(rh.network_view, dest)} :
            p # <<>> =>
                \A q \in PathsOfLen(rh.network_view, dest, Len(p)) : LexLeq(p, q)

\* a destination with two shortest paths, the smaller one returned
C34_TieSeen ==
    \E dest \in Nodes :
        \E p \in {find_path(rh.network_view, dest)} :
            /\ p # <<>>
            /\ Cardinality(PathsOfLen(rh.network_view, dest, Len(p))) >= 2
            /\ \A q \in PathsOfLen(rh.network_view, dest, Len(p)) : LexLeq(p, q)

----------------------------------------------------------------------------
(* C35: a disconnected controller channel ends the event loop.  When the   *)
(* select of a running drone takes the command arm on a channel whose      *)
(* senders are all dropped, the drone is no longer running after it; the   *)
(* same for the endpoint.                                                  *)

\* the step in which the select of drone d first meets the disconnected
\* command channel
DisconnectSeen(d) ==
    /\ status[d] = "running"
    /\ cmdq[d] # <<>> /\ Head(cmdq[d]) = Disconnected
    /\ d \in polled /\ polled' = polled \ {d}
    /\ cmdq' = cmdq /\ queue' = queue /\ closed' = closed /\ injected' = injected

C35_Step == \A d \in Drones : DisconnectSeen(d) => status'[d] # "running"

C35_DisconnectEndsLoop == [][C35_Step]_vars

\* C35 for the endpoint loop: after run() met the disconnected command
\* channel the process has exited
C35_EndpointExits == ep_last.op = "Disconnected" => ep_status = "exited"

\* a drone whose command channel is disconnected stays in its loop with
\* packets waiting that it will not take
C35_Spinning ==
    \E d \in Drones :
        /\ status[d] = "running"
        /\ cmdq[d] = <<Disconnected>>
        /\ d \notin polled
        /\ queue[d] # <<>>

----------------------------------------------------------------------------
(* C36: Crash drains and terminates.  The step that takes the Crash        *)
(* command handles every packet that is in the drone's queue at that time  *)
(* in crash mode, in queue order, and leaves the drone terminated with its *)
(* queue found empty; a terminated drone handles no packet any more.       *)

\* the step in which drone d takes the Crash command
CrashTaken(d) ==
    /\ status[d] = "running"
    /\ cmdq[d] # <<>> /\ Head(cmdq[d]).kind = "Crash"
    /\ cmdq'[d] = Tail(cmdq[d])

\* every packet waiting at d is a routed packet that has d as its current
\* hop and a hop after it
WellRouted(d) ==
    \A i \in DOMAIN queue[d] :
        /\ queue[d][i].type # "FloodRequest"
        /\ queue[d][i].hop_index >= 1
        /\ current_hop(queue[d][i]) = d
        /\ next_hop(queue[d][i]) # None

\* a later step in which a handler of drone d ran
HandledBy(d) == last' # last /\ \E i \in DOMAIN last' : last'[i].node = d

C36_Step ==
    \A d \in Drones :
        /\ (CrashTaken(d) /\ WellRouted(d)) =>
              /\ Len(last') >= Len(queue[d])
              /\ \A i \in DOMAIN queue[d] :
                    /\ last'[i].pkt = queue[d][i]
                    /\ last'[i].node = d
              /\ \A i \in DOMAIN last' :
                    last'[i].mode = "crash" /\ ~last'[i].eff.panic
              /\ status'[d] = "crashed"
              /\ queue'[d] = <<>>
        /\ status[d] # "running" => ~HandledBy(d)

C36_CrashDrainsAndTerminates == [][C36_Step]_vars

\* C36 without the outcome of the single packets: the drain takes the
\* queued packets in order and in crash mode until one of them panics, the
\* drone is terminated after the step, and a terminated drone handles nothing
C36_DrainStep ==
    \A d \in Drones :
        /\ CrashTaken(d) =>
              /\ status'[d] \in {"crashed", "panicked"}
              /\ \A i \in DOMAIN last' :
                    /\ last'[i].mode = "crash" /\ last'[i].node = d
                    /\ i <= Len(queue[d]) => last'[i].pkt = queue[d][i]
              /\ status'[d] = "crashed" =>
                    Len(last') >= Len(queue[d]) /\ queue'[d] = <<>>
        /\ status[d] # "running" => ~HandledBy(d)

C36_DrainInOrder == [][C36_DrainStep]_vars

\* a drone took Crash with a packet waiting and drained it without a panic
C36_Drained ==
    \E d \in Drones :
        /\ status[d] = "crashed"
        /\ last # <<>>
        /\ \A i \in DOMAIN last :
              last[i].node = d /\ last[i].mode = "crash" /\ ~last[i].eff.panic

----------------------------------------------------------------------------
(* One discovery round on a static topology of the endpoint Me and the     *)
(* three drones; every link is known at both ends.  Me calls start_flood   *)
(* once; the drones and Me handle what arrives, each in its own thread.    *)

MaxTrace == 5       \* longest path_trace of a FloodRequest a node still takes

\* the topologies of a round: all links, a ring, a star around drone 11
RoundTopologies ==
    { (11 :> {Me, 12, 13}) @@ (12 :> {Me, 11, 13}) @@ (13 :> {11, 12}),
      (11 :> {Me, 13}) @@ (12 :> {Me, 13}) @@ (13 :> {11, 12}),
      (11 :> {Me, 12, 13}) @@ (12 :> {11}) @@ (13 :> {11}) }

InitRound ==
    /\ queue = [n \in Nodes |-> <<>>]
    /\ cmdq = [d \in Drones |-> <<>>]
    /\ packet_send \in RoundTopologies
    /\ pdr = [d \in Drones |-> 0]
    /\ flood_session = [d \in Drones |-> {}]
    /\ status = [d \in Drones |-> "running"]
    /\ closed = {}
    /\ last = <<>>
    /\ injected = <<>>
    /\ ncmd = 0
    /\ pending_sends = [d \in Drones |-> {}]
    /\ polled = Drones
    /\ AsmIdle
    /\ \E up \in {SeqOfSet({d \in Drones : Me \in packet_send[d]})} :
       \E ns \in {up, Reverse(up)} :
          rh = AddNeighbors(Ctx(RhNew(Me, "Client", {})), ns).rh
    /\ ep_status = "running"
    /\ ep_last = EpLast("none", NoPkt, Ctx(rh), NoneRet)
    /\ ep_ops = MaxEpOps - 1
    /\ ep_acked = {}

\* the packet at the head of n's queue is taken by n's loop
Takes(n) ==
    /\ queue[n] # <<>>
    /\ Head(queue[n]).type = "FloodRequest" => Len(Head(queue[n]).path_trace) <= MaxTrace

\* drone d handles the head of its queue; with pdr = 0 the draw decides nothing
RoundHandle(d) == Takes(d) /\ HandlePacket(d, 0)

NextRound ==
    \/ EpStartFlood
    \/ \E d \in Drones : RoundHandle(d)
    \/ Takes(Me) /\ EpHandlePacket

SpecRound == InitRound /\ [][NextRound]_vars

\* the endpoint's loop can take the head of its queue
EpCanTake == Takes(Me) /\ ep_status = "running"

\* every thread that has something to do is scheduled.  The last conjunct is
\* WF_vars(Takes(Me) /\ EpHandlePacket) with its ENABLED written out as
\* EpCanTake: handle_packet is total and always pops the head of the queue
FairRound ==
    /\ SpecRound
    /\ WF_vars(EpStartFlood)
    /\ \A d \in Drones : WF_vars(RoundHandle(d))
    /\ ([]<>~EpCanTake \/ []<><<Takes(Me) /\ EpHandlePacket>>_vars)

----------------------------------------------------------------------------
(* C37: every flood terminates.  After the single start_flood the network  *)
(* reaches a state in which every packet queue is empty and stays so: no   *)
(* FloodRequest or FloodResponse is sent any more.                         *)
AllQueuesEmpty == \A n \in Nodes : queue[n] = <<>>

C37_TraceBound ==
    \A n \in Nodes : \A i \in DOMAIN queue[n] :
        queue[n][i].type = "FloodRequest" =>
            Len(queue[n][i].path_trace) <= Cardinality(Drones) + 2

----------------------------------------------------------------------------
(* C38: the path_trace entry an endpoint appends for itself when it takes  *)
(* a FloodRequest carries its own kind (Client or Server): in every packet *)
(* the endpoint writes while handling a FloodRequest, its own entry of the *)
(* path_trace has the kind its network view records for it.                *)
C38_OwnKindInTrace ==
    (ep_last.op = "packet" /\ ep_last.pkt.type = "FloodRequest") =>
        \A i \in DOMAIN ep_last.sends :
            \A e \in Range(ep_last.sends[i].pkt.path_trace) :
                e[1] = Me => e[2] = rh.network_view[1].kind

\* Network::get_servers: the ids of the nodes of kind Server ({} for None)
get_servers(nodes) ==
    { nodes[i].id : i \in { j \in DOMAIN nodes : nodes[j].kind = "Server" } }

\* C38, the consequence: a server (node 21, one neighbour, drone 13) running
\* the same handler answers a flood of Me; once Me, whose view did not hold
\* the server yet, has handled the answer, get_servers returns the server
C38_ServerClassified ==
    LET f == rh.flood_counter
        req == new_flood_request(0, f, Me, <<<<11, "Drone">>, <<13, "Drone">>>>)
        server == AddNeighbors(Ctx(RhNew(21, "Server", {})), <<13>>)
        out == ep_handle_flood_request(server, req).sends
    IN (f >= 1 /\ 13 \notin closed /\ out # <<>> /\ NodeIndex(rh.network_view, 21) = 0) =>
          21 \in get_servers(handle_flood_response(Ctx(rh), out[1].pkt).rh.network_view)

\* C38: the endpoint has handled a FloodRequest and written a packet for it
C38_Answered ==
    /\ ep_last.op = "packet"
    /\ ep_last.pkt.type = "FloodRequest"
    /\ ep_last.sends # <<>>
    /\ ep_status = "running"

----------------------------------------------------------------------------
(* C39: after any sequence of add_node, update_node, remove_node and       *)
(* flood-response updates, no node of the endpoint's network view lists    *)
(* itself among its adjacents and no adjacency list holds an id twice.     *)
NoSelfAdjacent(n) == ~Contains(n.adjacents, n.id)

NoRepeatedAdjacent(n) ==
    \A i, j \in DOMAIN n.adjacents : n.adjacents[i] = n.adjacents[j] => i = j

C39_AdjacentsClean ==
    \A k \in DOMAIN rh.network_view :
        NoSelfAdjacent(rh.network_view[k]) /\ NoRepeatedAdjacent(rh.network_view[k])

\* C39, the second half alone: no adjacency list holds an id twice
C39_NoRepeatedAdjacent ==
    \A k \in DOMAIN rh.network_view : NoRepeatedAdjacent(rh.network_view[k])

\* C39, what update_node alone keeps: the ids other than the node's own
\* appear at most once in its adjacency list
C39_OthersOnce ==
    \A k \in DOMAIN rh.network_view :
        \A i, j \in DOMAIN rh.network_view[k].adjacents :
            (rh.network_view[k].adjacents[i] = rh.network_view[k].adjacents[j]
             /\ rh.network_view[k].adjacents[i] # rh.network_view[k].id) => i = j

\* C39: the view has grown by commands and by a flood response
C39_ViewGrown ==
    /\ Len(rh.network_view) >= 3
    /\ ep_last.op = "packet"
    /\ ep_last.pkt.type = "FloodResponse"
    /\ ep_status = "running"

----------------------------------------------------------------------------
(* C40: handle_nack returns normally, with success or with an error value, *)
(* for every NackType, UnexpectedRecipient included: no NACK taken from    *)
(* the network makes the endpoint abort.                                   *)
C40_NackReturns ==
    (ep_last.op = "packet" /\ ep_last.pkt.type = "Nack") =>
        ep_last.res # "panic" /\ ep_status # "panicked"

\* C40, the other three kinds: a NACK that is not UnexpectedRecipient never
\* aborts the endpoint
C40_OtherNacksReturn ==
    (/\ ep_last.op = "packet"
     /\ ep_last.pkt.type = "Nack"
     /\ ep_last.pkt.nack_type # "UnexpectedRecipient") =>
        ep_last.res # "panic" /\ ep_status # "panicked"

\* C40: an ErrorInRouting NACK has been handled and the new flood written
C40_FloodAfterNack ==
    /\ ep_last.op = "packet"
    /\ ep_last.pkt.type = "Nack"
    /\ ep_last.pkt.nack_type = "ErrorInRouting"
    /\ ep_last.res = "ok"
    /\ ep_last.sends # <<>>
====
